---- MODULE Spec2Model ----
(***************************************************************************)
(* Model of the JavaScript runtime provider (RuntimeProviderJS): the pool  *)
(* of interpreter instances (Get / Put / warm-up) and the hook dispatchers *)
(* (Rpc, BeforeRt, AfterRt, BeforeReq, AfterReq) that acquire an instance, *)
(* look the callback up, invoke it and release the instance.               *)
(*                                                                         *)
(*   Spec        the pool and the dispatchers under concurrent callers     *)
(*   HookSpec    one dispatcher call with the values it carries across the *)
(*               bridge (messages, generic maps, script values, results)   *)
(*   LookupSpec  RuntimeJS.GetCallback over every registry content         *)
(*   CacheSpec   cacheJavascriptModules and RuntimeJSModuleCache.Add       *)
(*   PutSpec     the pool under callers of Get and Put that may Put twice  *)
(*   EvalSpec    evalRuntimeModules and the return of NewRuntimeProviderJS *)
(*   RegSpec     the registration callback of NewRuntimeProviderJS         *)
(*   InvokeSpec  RuntimeJS.InvokeFunction and NewRuntimeJsContext          *)
(*   FairSpec    Spec with the progress of startup                         *)
(*   CheckSpec   CheckRuntimeProviderJavascript                            *)
(***************************************************************************)
EXTENDS Integers, Sequences, FiniteSets, TLC

\* ---------------------------------------------------------------- bounds
NumProcs == 2
MaxPool == 2
\* Field values of a protocol message range over 0..MaxVal.
MaxVal == 2
\* Longest list of paths handed to cacheJavascriptModules.
MaxPaths == 3
\* Longest list of cached modules handed to evalRuntimeModules.
MaxMods == 2
\* Most registrations an initializer makes.
MaxRegs == 2

Procs == 1..NumProcs

\* ------------------------------------------------------------- vocabulary
\* The interpreter created by evalRuntimeModules; pooled instances are 1, 2, ...
InitVM == 0
NoInstance == 0

ModeRPC == "rpc"
ModeBefore == "before"
ModeAfter == "after"
ModeMatchmaker == "matchmaker"
ModeTournamentEnd == "tournament_end"
ModeTournamentReset == "tournament_reset"
ModeLeaderboardReset == "leaderboard_reset"

ReservedModes == {ModeMatchmaker, ModeTournamentEnd, ModeTournamentReset, ModeLeaderboardReset}
Modes == {ModeRPC, ModeBefore, ModeAfter} \cup ReservedModes

\* The script callables a module may register, and the absent callable (nil).
Callables == {"fnA", "fnB"}
NilFn == "nil"

Dispatchers == {"Rpc", "BeforeRt", "AfterRt", "BeforeReq", "AfterReq"}
Ops == {"Get"} \cup Dispatchers

\* Hook ids a caller may ask for: one that the loaded module registers, one nobody registers.
Ids == {"hook", "nohook"}

\* What the script callable does when it is called.
ScriptOutcomes == {"exception", "error", "nothing", "string", "other"}

GetPcs == {"get_select", "get_load", "get_inc", "get_wait"}

VARIABLES
  minCount,      \* config.GetRuntime().MinCount
  maxCount,      \* rp.maxCount, also the capacity of rp.poolCh
  hasModules,    \* len(modCache.Names) > 0
  callbacks,     \* the registry returned by evalRuntimeModules: per mode, key -> callable
  phase,         \* "warmup", "blocked" (warm-up send stuck), "running"
  warmed,        \* loop variable i of the warm-up loop
  poolCh,        \* rp.poolCh: FIFO of idle instances
  currentCount,  \* rp.currentCount
  constructed,   \* number of newFn() calls so far; the n-th call yields instance n
  justPut,       \* instance enqueued by the last pool operation if that was a Put, else 0
  pc,            \* per caller: position in its current call
  op,            \* per caller: the dispatcher whose hook it is running, else "none"
  ctx,           \* per caller: state of the context passed to Get
  r,             \* per caller: local r, the instance obtained from Get
  cc,            \* per caller: local currentCount of Get (result of Inc), 0 if unset
  last,          \* the call that returned in the step just taken, if one did:
                 \* operation, caller, return path, number of rp.Put calls it made,
                 \* the instance it had acquired, its Get's local currentCount
  hook,          \* HookSpec: the frame of the dispatcher call (its locals and result)
  heap,          \* HookSpec: the objects the caller passed in (res, req / envelope)
  entry,         \* HookSpec: heap as it was when the dispatcher was called
  jsonpb,        \* HookSpec: settings of rp.jsonpbMarshaler / rp.jsonpbUnmarshaler
  found,         \* LookupSpec: the last GetCallback call and what it returned
  paths,         \* CacheSpec: argument paths of cacheJavascriptModules
  pathIdx,       \* CacheSpec: position of the range loop in paths
  moduleCache,   \* CacheSpec: local moduleCache (Names, Modules)
  cacheResult,   \* CacheSpec: what cacheJavascriptModules returned
  added,         \* CacheSpec: the modules passed to Add so far, in call order
  wired,         \* EvalSpec, RegSpec: rpcFunctions, beforeRtFunctions, afterRtFunctions,
                 \* beforeReqFunctions, afterReqFunctions of NewRuntimeProviderJS
  boot,          \* EvalSpec: the locals of evalRuntimeModules, what it returned and
                 \* what NewRuntimeProviderJS returned
  call           \* InvokeSpec: one call of RuntimeJS.InvokeFunction

vars == <<minCount, maxCount, hasModules, callbacks, phase, warmed, poolCh,
          currentCount, constructed, justPut, pc, op, ctx, r, cc, last,
          hook, heap, entry, jsonpb, found,
          paths, pathIdx, moduleCache, cacheResult, added, wired, boot, call>>

config == <<minCount, maxCount, hasModules, callbacks>>
startup == <<phase, warmed>>
\* The variables of the three sequential specifications.
bridge == <<hook, heap, entry, jsonpb>>
loader == <<paths, pathIdx, moduleCache, cacheResult, added>>
wiring == <<wired, boot>>
data == <<bridge, found, loader, wiring, call>>
\* The pool variables a dispatcher call or a lookup never touches.
poolRest == <<minCount, maxCount, phase, warmed, currentCount, constructed,
              justPut, pc, op, ctx, r, cc, last, wiring, call>>

Range(s) == {s[i] : i \in DOMAIN s}

\* ------------------------------------------------------ registry and modes
\* evalRuntimeModules: every module's InitModule registers its hooks in the
\* initializer interpreter; with no modules the registry is empty.
EvalRuntimeModules(mods) ==
  IF mods THEN [rpc |-> [k \in {"hook"} |-> "fnA"],
                before |-> [k \in {"hook"} |-> "fnB"],
                after |-> [k \in {"hook"} |-> "fnA"]]
          ELSE [rpc |-> <<>>, before |-> <<>>, after |-> <<>>]

\* The interpreter a registered callable belongs to: the one that defined it.
CallableVM == InitVM

\* The interpreter of pooled instance i (newFn: vm = goja.New()).
InstanceVM(i) == i

ModeOf(o) ==
  CASE o = "Rpc" -> ModeRPC
    [] o \in {"BeforeRt", "BeforeReq"} -> ModeBefore
    [] OTHER -> ModeAfter

\* A Go map lookup: the entry, or nil when the key is absent.
TableGet(t, key) == IF key \in DOMAIN t THEN t[key] ELSE NilFn

\* Mutant: the After case reads the Before table.
GetCallback_AfterReadsBefore(mode, key) ==
  CASE mode = ModeRPC -> TableGet(callbacks.rpc, key)
    [] mode = ModeBefore -> TableGet(callbacks.before, key)
    [] mode = ModeAfter -> TableGet(callbacks.before, key)
    [] OTHER -> NilFn

\* RuntimeJS.GetCallback: the callable registered for (mode, key), or nil.
\* The cases of the four reserved modes have no return statement.
GetCallback(mode, key) ==
  CASE mode = ModeRPC -> TableGet(callbacks.rpc, key)
    [] mode = ModeBefore -> TableGet(callbacks.before, key)
    [] mode = ModeAfter -> TableGet(callbacks.after, key)
    [] OTHER -> NilFn

\* --------------------------------------------------------- pool primitives
\* Mutant: the channel is made one slot smaller than maxCount.
PoolCap_OneLess == maxCount - 1

\* Capacity of poolCh.
PoolCap == maxCount

\* Mutant: the receive delivers the most recently sent element (LIFO).
RecvValue_Last(q) == q[Len(q)]

\* Value delivered by a receive from poolCh: the oldest element.
RecvValue(q) == Head(q)

\* Mutant: the received element stays in the channel.
RecvRest_Keep(q) == q

\* The channel after a receive.
RecvRest(q) == Tail(q)

\* Mutant: a full channel drops its oldest element to take the new one.
PutCh_DropOldest(q, x) == IF Len(q) < PoolCap THEN Append(q, x) ELSE Append(Tail(q), x)

\* Put: non-blocking send, the instance is discarded when the channel is full.
PutCh(q, x) == IF Len(q) < PoolCap THEN Append(q, x) ELSE q

\* Mutant: the first check lets a Get through when the counter equals maxCount.
LoadRefuses_OffByOne(c) == c > maxCount

\* Get, line 430: allocation is refused once the counter has reached maxCount.
LoadRefuses(c) == c >= maxCount

\* Mutant: the post-increment recheck allows one value past maxCount.
IncRefuses_Late(c) == c > maxCount + 1

\* Mutant: the post-increment recheck is missing.
IncRefuses_Never(c) == FALSE

\* Mutant: the post-increment recheck is off by one.
IncRefuses_OffByOne(c) == c >= maxCount

\* Get, line 435: the post-increment recheck.
IncRefuses(c) == c > maxCount

\* ------------------------------------------------------------- dispatchers
\* Shapes of a res / req argument: absent, a protocol message, some other value.
NoArgs == [res |-> "nil", req |-> "nil"]

\* Value of last before any call has returned.
NoCall == [op |-> "none", by |-> 0, path |-> "none", puts |-> 0, inst |-> 0, cc |-> 0]

ArgsOf(o) ==
  CASE o = "Rpc" -> {NoArgs}
    [] o \in {"BeforeRt", "AfterRt"} -> {[res |-> "nil", req |-> "msg"]}
    [] o = "BeforeReq" -> {[res |-> "nil", req |-> q] : q \in {"nil", "msg", "other"}}
    [] OTHER -> {[res |-> s, req |-> q] : s, q \in {"nil", "msg", "other"}}

\* Outcomes of turning one argument into a generic map before the call:
\* the cast to proto.Message, MarshalToString, json.Unmarshal.
ToMapOutcomes(o, a) ==
  CASE a = "nil" -> {"ok"}
    [] a = "other" -> {"cast"}
    [] OTHER -> {"ok", "marshal", "unmarshal"}

\* The return path taken before the invocation, "ok" when the hook is reached.
\* res is converted first (AfterReq), then req.
PrePath(resOut, reqOut) ==
  IF resOut # "ok" THEN "res_" \o resOut
  ELSE IF reqOut # "ok" THEN "req_" \o reqOut
  ELSE "ok"

\* The return path of a dispatcher up to the invocation: "notfound" when
\* GetCallback finds nothing, else the conversion result.
PrePathOf(o, id, resOut, reqOut) ==
  IF GetCallback(ModeOf(o), id) = NilFn THEN "notfound" ELSE PrePath(resOut, reqOut)

\* All paths dispatcher o can take up to the invocation, over every id, every
\* argument shape and every conversion outcome.
PrePaths(o) ==
  UNION { UNION { { PrePathOf(o, id, resOut, reqOut) :
                      resOut \in ToMapOutcomes(o, a.res), reqOut \in ToMapOutcomes(o, a.req) }
                  : a \in ArgsOf(o) }
          : id \in Ids }

\* Mutant: BeforeReq forgets rp.Put on its early returns after a failed conversion.
PutAt_BeforeReqLeak(o, point) ==
  CASE o = "Rpc" -> point = "notfound"
    [] o = "BeforeReq" -> point # "prefail"
    [] OTHER -> TRUE

\* Does the dispatcher call rp.Put before returning at this point?
\*   "notfound": no callback registered; "prefail": conversion failed before
\*   the call; "invoked": after InvokeFunction returned.
PutAt(o, point) ==
  CASE o = "Rpc" -> point = "notfound"
    [] OTHER -> TRUE

\* InvokeFunction: TRUE iff it returns an error (exception or runtime error).
InvokeFails(out) == out \in {"exception", "error"}

\* Mutant: no returned value counts as nil.
InvokeNil_Never(out) == FALSE

\* InvokeFunction: TRUE iff the returned value is nil (nothing, undefined, null).
InvokeNil(out) == out = "nothing"

\* The return path after InvokeFunction came back, per dispatcher.
\*   post: outcome of projecting the result back (json.Marshal, jsonpb Unmarshal).
PostPath(o, reqNil, out, post) ==
  IF InvokeFails(out) THEN "fn_err"
  ELSE CASE o = "Rpc" ->
              IF InvokeNil(out) THEN "panic"
              ELSE IF out = "string" THEN "ok" ELSE "bad_value"
         [] o = "BeforeRt" ->
              IF InvokeNil(out) THEN "drop"
              ELSE IF post = "ok" THEN "ok" ELSE "post_" \o post
         [] o = "BeforeReq" ->
              IF InvokeNil(out) \/ reqNil THEN "no_override"
              ELSE IF post = "ok" THEN "ok" ELSE "post_" \o post
         [] OTHER -> "ok"

\* All paths dispatcher o can take after the invocation, over every script
\* outcome, every projection outcome and a present or absent request.
PostPaths(o) ==
  { PostPath(o, reqNil, out, post) :
      reqNil \in (IF o = "BeforeReq" THEN BOOLEAN ELSE {FALSE}),
      out \in ScriptOutcomes, post \in {"ok", "marshal", "unmarshal"} }

\* ------------------------------------------------ values crossing the bridge
\* Go and script values are tagged records; kind tells them apart.
GoNil == [kind |-> "nil"]
\* A return position the function does not have.
NoVal == [kind |-> "none"]
\* The pointer the caller passed in (the envelope or the request itself).
SameObject == [kind |-> "ref"]

JsUndefined == [kind |-> "undefined"]
JsNull == [kind |-> "null"]
\* A script string; Str(0) is the empty string.
Str(n) == [kind |-> "str", val |-> n]
Num(n) == [kind |-> "num", val |-> n]
\* A script object with the given own properties.
Obj(m) == [kind |-> "obj", val |-> m]
\* A script object JSON cannot serialise (it refers to itself).
Cyclic == [kind |-> "cyclic"]
\* fn(...) ended with an uncaught exception / with another error.
Thrown == [kind |-> "exception"]
Failed == [kind |-> "error"]

\* A protocol message (rtapi.Envelope, an api request or response): the value
\* of each field, 0 being the field's zero value.
Fields == {"f1", "f2"}
FieldOrder == <<"f1", "f2">>
Vals == 0..MaxVal
Messages == [Fields -> Vals]

\* What a caller may pass for res / req: nothing, a value that is no protocol
\* message, or a pointer to a message with the given content.
OtherObj == [kind |-> "other"]
MsgObj(m) == [kind |-> "msg", f |-> m]
ObjectsOf(shape) ==
  CASE shape = "nil" -> {GoNil}
    [] shape = "other" -> {OtherObj}
    [] OTHER -> {MsgObj(m) : m \in Messages}

\* The argument objects dispatcher o may be called with.
ArgObjects(o) ==
  UNION { {[res |-> s, req |-> q] : s \in ObjectsOf(a.res), q \in ObjectsOf(a.req)}
          : a \in ArgsOf(o) }

\* Property names of a script object: the message's fields and one more name.
Keys == Fields \cup {"zz"}
\* A property value of a type the message field cannot take.
BadVal == -1
JVals == Vals \cup {BadVal}
Maps == UNION {[D -> JVals] : D \in SUBSET Keys}

\* Everything the call fn(...) can come back with.
JsValues ==
  {JsUndefined, JsNull, Cyclic} \cup {Str(n) : n \in 0..1} \cup {Num(1)}
    \cup {Obj(m) : m \in Maps}
CallOutcomes == {Thrown, Failed, GoNil} \cup JsValues

\* jsonpb MarshalToString followed by json.Unmarshal into a map: one entry
\* per field, zero-valued fields left out unless EmitDefaults is set.
MarshalToMap(m, emitDefaults) ==
  [f \in {g \in Fields : emitDefaults \/ m[g] # 0} |-> m[f]]

\* The local reqMap / resMap / envelopeMap for an argument: the nil map when
\* the argument is nil.
MapOf(obj, emitDefaults) ==
  IF obj.kind = "msg" THEN [kind |-> "map", val |-> MarshalToMap(obj.f, emitDefaults)]
  ELSE GoNil

\* Mutant: a nil map becomes an empty script object.
ToValue_NilIsEmptyObject(gomap) ==
  IF gomap = GoNil THEN Obj(<<>>) ELSE Obj(gomap.val)

\* r.vm.ToValue of a map[string]interface{}: null for the nil map.
ToValue(gomap) ==
  IF gomap = GoNil THEN JsNull ELSE Obj(gomap.val)

\* Mutant: AfterReq hands over the request before the response.
PayloadsOf_ReqFirst(o, h, emitDefaults) ==
  CASE o = "Rpc" -> <<Str(1)>>
    [] o = "AfterReq" -> <<ToValue(MapOf(h.req, emitDefaults)), ToValue(MapOf(h.res, emitDefaults))>>
    [] OTHER -> <<ToValue(MapOf(h.req, emitDefaults))>>

\* The payloads InvokeFunction receives from dispatcher o.
PayloadsOf(o, h, emitDefaults) ==
  CASE o = "Rpc" -> <<Str(1)>>
    [] o = "AfterReq" -> <<ToValue(MapOf(h.res, emitDefaults)), ToValue(MapOf(h.req, emitDefaults))>>
    [] OTHER -> <<ToValue(MapOf(h.req, emitDefaults))>>

\* InvokeFunction, the argument vector jv of the call fn(goja.Null(), jv...):
\* the context, r.jsLoggerInst and r.nkInst, then the payloads in order.
FixedArgs == <<[kind |-> "ctx"], [kind |-> "logger"], [kind |-> "nk"]>>
Jv(payloads) == FixedArgs \o payloads

\* The coarse outcome of a script call.
OutcomeOf(v) ==
  CASE v.kind = "exception" -> "exception"
    [] v.kind = "error" -> "error"
    [] v.kind \in {"nil", "undefined", "null"} -> "nothing"
    [] v.kind = "str" -> "string"
    [] OTHER -> "other"

\* RuntimeJS.InvokeFunction, given what fn(...) came back with.
InvokeFunction(v) ==
  IF InvokeFails(OutcomeOf(v))
    THEN [result |-> GoNil,
          err |-> IF v.kind = "exception" THEN "JsErrorException" ELSE "JsErrorRuntime",
          code |-> "Internal"]
    ELSE [result |-> IF InvokeNil(OutcomeOf(v)) THEN GoNil ELSE v,
          err |-> "none", code |-> "OK"]

\* jsonpb Unmarshal, the loop over the target's fields: a field present in the
\* JSON object is overwritten, an absent one is left alone; the first value of
\* the wrong type ends the loop with an error.
RECURSIVE UnmarshalFields(_, _, _)
UnmarshalFields(m, j, i) ==
  IF i > Len(FieldOrder) THEN [msg |-> m, ok |-> TRUE]
  ELSE LET f == FieldOrder[i] IN
       IF f \notin DOMAIN j THEN UnmarshalFields(m, j, i + 1)
       ELSE IF j[f] = BadVal THEN [msg |-> m, ok |-> FALSE]
       ELSE UnmarshalFields([m EXCEPT ![f] = j[f]], j, i + 1)

\* Mutant: the target is reset before the fields are read.
Unmarshal_Reset(v, m, allowUnknown) ==
  IF v.kind # "obj" THEN [msg |-> m, ok |-> FALSE]
  ELSE LET u == UnmarshalFields([f \in Fields |-> 0], v.val, 1) IN
       IF u.ok /\ ~allowUnknown /\ (DOMAIN v.val) \ Fields # {}
         THEN [msg |-> u.msg, ok |-> FALSE]
         ELSE u

\* rp.jsonpbUnmarshaler.Unmarshal(JSON of v, target with content m): the
\* content of the target afterwards and whether it succeeded.  JSON that is no
\* object fails at once; a name that is no field fails after the fields were
\* written, unless AllowUnknownFields is set.
Unmarshal(v, m, allowUnknown) ==
  IF v.kind # "obj" THEN [msg |-> m, ok |-> FALSE]
  ELSE LET u == UnmarshalFields(m, v.val, 1) IN
       IF u.ok /\ ~allowUnknown /\ (DOMAIN v.val) \ Fields # {}
         THEN [msg |-> u.msg, ok |-> FALSE]
         ELSE u

\* json.Marshal(result) and the Unmarshal into the target: the outcome of the
\* projection and the target object afterwards.
Projection(v, target, allowUnknown) ==
  IF v.kind = "cyclic" THEN [post |-> "marshal", obj |-> target]
  ELSE LET u == Unmarshal(v, target.f, allowUnknown) IN
       [post |-> IF u.ok THEN "ok" ELSE "unmarshal", obj |-> MsgObj(u.msg)]

\* Mutant: the After dispatchers project the result as well.
Projects_AfterToo(o) == o # "Rpc"

\* The dispatchers that project the script's result back onto their argument.
Projects(o) == o \in {"BeforeRt", "BeforeReq"}

\* The error returned when no callback is registered.
NotFoundErr(o) ==
  CASE o = "Rpc" -> "ErrRuntimeRPCNotFound"
    [] o = "AfterReq" -> "Runtime After function not found."
    [] OTHER -> "Runtime Before function not found."

\* The error rp.Get returns when the caller's context is done: ctx.Err().
CtxErr == "ctx.Err()"

\* The error a dispatcher returns on each return path.
ErrOf(o, pth, fnErr) ==
  CASE pth = "ctx_err" -> CtxErr
    [] pth = "notfound" -> NotFoundErr(o)
    [] pth = "fn_err" -> fnErr
    [] pth \in {"ok", "drop", "no_override"} -> "none"
    [] pth = "bad_value" ->
         "Runtime function returned invalid data - only allowed one return value of type string."
    [] pth \in {"post_marshal", "post_unmarshal"} -> "Could not complete runtime Before function."
    [] OTHER -> IF o = "AfterReq" THEN "Could not run runtime After function."
                ELSE "Could not run runtime Before function."

\* Mutant: BeforeReq reports a missing callback as Internal.
CodeOf_NotFoundInternal(o, pth) ==
  IF o \notin {"Rpc", "BeforeReq"} THEN "none"
  ELSE CASE pth = "notfound" -> IF o = "Rpc" THEN "NotFound" ELSE "Internal"
         [] pth \in {"ok", "no_override"} -> "OK"
         [] OTHER -> "Internal"

\* The status code Rpc and BeforeReq return on each return path.
CodeOf(o, pth) ==
  IF o \notin {"Rpc", "BeforeReq"} THEN "none"
  ELSE CASE pth = "notfound" -> "NotFound"
         [] pth \in {"ok", "no_override"} -> "OK"
         [] OTHER -> "Internal"

\* The value a dispatcher returns on each return path.
ValOf(o, pth, result) ==
  CASE o = "Rpc" -> IF pth = "ok" THEN result ELSE Str(0)
    [] o \in {"BeforeRt", "BeforeReq"} -> IF pth = "ok" THEN SameObject ELSE GoNil
    [] OTHER -> NoVal

RetOf(o, pth, result, fnErr) ==
  [val |-> ValOf(o, pth, result), err |-> ErrOf(o, pth, fnErr), code |-> CodeOf(o, pth)]

NoRet == [val |-> NoVal, err |-> "none", code |-> "none"]
NoHeap == [res |-> GoNil, req |-> GoNil]
\* The frame of a dispatcher call that has not started.
NoHook ==
  [pc |-> "off", op |-> "none", id |-> "none", r |-> NoInstance, puts |-> 0,
   calls |-> 0, payloads |-> <<>>, out |-> GoNil, result |-> GoNil,
   fnErr |-> "none", path |-> "none", ret |-> NoRet]

\* ------------------------------------------------------------ registry use
NoLookup == [mode |-> "none", key |-> "none", fn |-> NilFn]
Tables == UNION {[D -> Callables] : D \in SUBSET Ids}
Registries == [rpc : Tables, before : Tables, after : Tables]

\* ------------------------------------------------------------ module cache
\* File names are strings of byte values: ".", "B", "J", "S", "a", "b", "j",
\* "l", "s", "u" are 46, 66, 74, 83, 97, 98, 106, 108, 115, 117.
FileNames ==
  { <<97, 46, 106, 115>>,        \* a.js
    <<97, 98, 46, 106, 115>>,    \* ab.js
    <<66, 46, 106, 115>>,        \* B.js
    <<98, 46, 74, 83>>,          \* b.JS
    <<97, 46, 108, 117, 97>> }   \* a.lua
Dirs == {"modules", "modules/sub"}
Paths == [dir : Dirs, name : FileNames]

\* filepath.Base and filepath.Ext of a path.
Base(path) == path.name
Ext(path) ==
  LET s == path.name
      dots == {i \in DOMAIN s : s[i] = 46}
  IN IF dots = {} THEN <<>>
     ELSE SubSeq(s, CHOOSE i \in dots : \A j \in dots : j <= i, Len(s))

\* strings.ToLower.
ToLower(s) == [i \in DOMAIN s |-> IF s[i] \in 65..90 THEN s[i] + 32 ELSE s[i]]

\* The test of line 1367, negated: the path is taken as a script.
IsScript(path) == ToLower(Ext(path)) = <<46, 106, 115>>

\* Go's < on strings: byte-wise lexicographic.
RECURSIVE LexLess(_, _)
LexLess(s, t) ==
  IF t = <<>> THEN FALSE
  ELSE IF s = <<>> THEN TRUE
  ELSE IF Head(s) # Head(t) THEN Head(s) < Head(t)
  ELSE LexLess(Tail(s), Tail(t))

RECURSIVE Insert(_, _)
Insert(sorted, x) ==
  IF sorted = <<>> THEN <<x>>
  ELSE IF LexLess(x, Head(sorted)) THEN <<x>> \o sorted
  ELSE <<Head(sorted)>> \o Insert(Tail(sorted), x)

\* sort.Strings.
RECURSIVE SortStrings(_)
SortStrings(s) ==
  IF s = <<>> THEN <<>>
  ELSE Insert(SortStrings(SubSeq(s, 1, Len(s) - 1)), s[Len(s)])

EmptyCache == [Names |-> <<>>, Modules |-> <<>>]
NilCache == [kind |-> "nil"]
NoResult == [cache |-> NilCache, err |-> "pending"]

\* The module compiled from a path.
ModuleOf(path) == [Name |-> Base(path), Path |-> path]

\* Mutant: Add without the sort.
Add_NoSort(mc, m) ==
  [Names |-> Append(mc.Names, m.Name),
   Modules |-> [n \in (DOMAIN mc.Modules) \cup {m.Name} |->
                  IF n = m.Name THEN m ELSE mc.Modules[n]]]

\* RuntimeJSModuleCache.Add.
Add(mc, m) ==
  [Names |-> SortStrings(Append(mc.Names, m.Name)),
   Modules |-> [n \in (DOMAIN mc.Modules) \cup {m.Name} |->
                  IF n = m.Name THEN m ELSE mc.Modules[n]]]

\* ------------------------------------------------------------ registration
\* Hook ids are sequences of tokens, so that a prefix is a prefix.
\* strings.ToLower(RTAPI_PREFIX) and strings.ToLower(API_PREFIX).
RtPrefix == <<"*rtapi.envelope_">>
ApiPrefix == <<"/nakama.api.nakama/">>

\* strings.HasPrefix and strings.TrimPrefix.
HasPrefix(s, prefix) ==
  Len(s) >= Len(prefix) /\ SubSeq(s, 1, Len(prefix)) = prefix
TrimPrefix(s, prefix) ==
  IF HasPrefix(s, prefix) THEN SubSeq(s, Len(prefix) + 1, Len(s)) ELSE s

\* The case labels of switch shortID (the same 65 under Before and under After).
KnownOps ==
  {"getaccount", "updateaccount", "authenticateapple", "authenticatecustom",
   "authenticatedevice", "authenticateemail", "authenticatefacebook",
   "authenticatefacebookinstantgame", "authenticategamecenter",
   "authenticategoogle", "authenticatesteam", "listchannelmessages",
   "listfriends", "addfriends", "deletefriends", "blockfriends",
   "importfacebookfriends", "creategroup", "updategroup", "deletegroup",
   "joingroup", "leavegroup", "addgroupusers", "bangroupusers",
   "kickgroupusers", "promotegroupusers", "listgroupusers",
   "listusergroups", "listgroups", "deleteleaderboardrecord",
   "listleaderboardrecords", "writeleaderboardrecord",
   "listleaderboardrecordsaroundowner", "linkapple", "linkcustom",
   "linkdevice", "linkemail", "linkfacebook", "linkfacebookinstantgame",
   "linkgamecenter", "linkgoogle", "linksteam", "listmatches",
   "listnotifications", "deletenotification", "liststorageobjects",
   "readstorageobjects", "writestorageobjects", "deletestorageobjects",
   "jointournament", "listtournamentrecords", "listtournaments",
   "writetournamentrecord", "listtournamentrecordsaroundowner",
   "unlinkapple", "unlinkcustom", "unlinkdevice", "unlinkemail",
   "unlinkfacebook", "unlinkfacebookinstantgame", "unlinkgamecenter",
   "unlinkgoogle", "unlinksteam", "getusers", "event"}

\* The ids a module may announce: an RPC name, a realtime message, two known
\* operations, an unknown operation, and an id that contains the API prefix
\* without starting with it.
RegIds ==
  {<<"rpcid">>,
   RtPrefix \o <<"channeljoin">>,
   ApiPrefix \o <<"getaccount">>,
   ApiPrefix \o <<"event">>,
   ApiPrefix \o <<"nosuchop">>,
   <<"x">> \o ApiPrefix \o <<"getaccount">>}
RegModes == {ModeRPC, ModeBefore, ModeAfter, ModeMatchmaker}

\* A dispatcher function stored in a table: a closure over id that calls
\* runtimeProviderJS.Rpc / BeforeRt / AfterRt / BeforeReq / AfterReq with it.
Closure(d, id) == [disp |-> d, id |-> id]

\* m[k] = v on a Go map.
MapSet(m, k, v) == [x \in (DOMAIN m) \cup {k} |-> IF x = k THEN v ELSE m[x]]

\* rpcFunctions, beforeRtFunctions, afterRtFunctions as made, and the two
\* structs of typed slots with every slot nil; ann lists the announcements.
NoTables ==
  [rpc |-> <<>>, beforeRt |-> <<>>, afterRt |-> <<>>,
   beforeReq |-> <<>>, afterReq |-> <<>>, ann |-> <<>>]

\* The typed slot switch shortID selects, "" when no case matches.
SlotOf(shortID) ==
  IF Len(shortID) = 1 /\ shortID[1] \in KnownOps THEN shortID[1] ELSE ""

\* Mutant: an API-prefixed id with no matching case lands in the realtime table.
WireHook_UnknownToRt(rt, req, d, id) ==
  IF HasPrefix(id, RtPrefix)
    THEN [rt |-> MapSet(rt, id, Closure(d \o "Rt", id)), req |-> req]
  ELSE IF HasPrefix(id, ApiPrefix)
    THEN LET slot == SlotOf(TrimPrefix(id, ApiPrefix)) IN
         IF slot # ""
           THEN [rt |-> rt, req |-> MapSet(req, slot, Closure(d \o "Req", id))]
           ELSE [rt |-> MapSet(rt, id, Closure(d \o "Rt", id)), req |-> req]
  ELSE [rt |-> rt, req |-> req]

\* The body of case RuntimeExecutionModeBefore / After: the realtime table rt
\* and the typed slots req after id has been announced; d is "Before" / "After".
WireHook(rt, req, d, id) ==
  IF HasPrefix(id, RtPrefix)
    THEN [rt |-> MapSet(rt, id, Closure(d \o "Rt", id)), req |-> req]
  ELSE IF HasPrefix(id, ApiPrefix)
    THEN LET slot == SlotOf(TrimPrefix(id, ApiPrefix)) IN
         IF slot # ""
           THEN [rt |-> rt, req |-> MapSet(req, slot, Closure(d \o "Req", id))]
           ELSE [rt |-> rt, req |-> req]
  ELSE [rt |-> rt, req |-> req]

\* The callback NewRuntimeProviderJS hands to evalRuntimeModules.
Announce(w, mode, id) ==
  CASE mode = ModeRPC -> [w EXCEPT !.rpc = MapSet(w.rpc, id, Closure("Rpc", id))]
    [] mode = ModeBefore ->
         LET t == WireHook(w.beforeRt, w.beforeReq, "Before", id) IN
         [w EXCEPT !.beforeRt = t.rt, !.beforeReq = t.req]
    [] mode = ModeAfter ->
         LET t == WireHook(w.afterRt, w.afterReq, "After", id) IN
         [w EXCEPT !.afterRt = t.rt, !.afterReq = t.req]
    [] OTHER -> w

\* Mutant: the registrar keeps the first callable registered under a key.
Record_FirstWins(reg, mode, id, fn) ==
  CASE mode = ModeRPC /\ id \notin DOMAIN reg.rpc -> [reg EXCEPT !.rpc = MapSet(reg.rpc, id, fn)]
    [] mode = ModeBefore /\ id \notin DOMAIN reg.before ->
         [reg EXCEPT !.before = MapSet(reg.before, id, fn)]
    [] mode = ModeAfter /\ id \notin DOMAIN reg.after ->
         [reg EXCEPT !.after = MapSet(reg.after, id, fn)]
    [] OTHER -> reg

\* The registrar storing callable fn under (mode, id) in initializer.Callbacks:
\* the last registration for a key wins.
Record(reg, mode, id, fn) ==
  CASE mode = ModeRPC -> [reg EXCEPT !.rpc = MapSet(reg.rpc, id, fn)]
    [] mode = ModeBefore -> [reg EXCEPT !.before = MapSet(reg.before, id, fn)]
    [] mode = ModeAfter -> [reg EXCEPT !.after = MapSet(reg.after, id, fn)]
    [] OTHER -> reg

\* The table a closure's dispatcher looks its callable up in, and the callable
\* the closure c reaches through registry reg when it is called.
Resolve(c, reg) ==
  CASE c.disp = "Rpc" -> TableGet(reg.rpc, c.id)
    [] c.disp \in {"BeforeRt", "BeforeReq"} -> TableGet(reg.before, c.id)
    [] OTHER -> TableGet(reg.after, c.id)

\* ------------------------------------------------------- module evaluation
\* What a module's top-level code leaves in the global InitModule of the
\* interpreter it runs in: a function, some other value, or nothing at all.
Defines == {"function", "other", "nothing"}
\* How a call of an initializer ends: it returns, it throws, or the call
\* fails with an error that is no script exception.
InitOutcomes == {"ok", "exception", "error"}

\* A cached module as evalRuntimeModules meets it: whether RunProgram of its
\* top-level code throws, what it defines, how its initializer ends.
ModuleKinds ==
  {[top |-> "throws", defines |-> "nothing", init |-> "ok"]}
    \cup {[top |-> "ok", defines |-> d, init |-> "ok"] : d \in {"other", "nothing"}}
    \cup {[top |-> "ok", defines |-> "function", init |-> o] : o \in InitOutcomes}

\* modCache.Names with the module behind each name, in the order of the loop.
ModuleLists == UNION {[1..n -> ModuleKinds] : n \in 0..MaxMods}

\* Values of the global InitModule: r.Get(INIT_MODULE_FN_NAME).
Undefined == [kind |-> "undefined", of |-> 0]
NotAFunction == [kind |-> "other", of |-> 0]
FunctionOf(i) == [kind |-> "function", of |-> i]

\* Mutant: every module is run in an interpreter of its own.
GlobalAfter_Fresh(g, m, i) ==
  CASE m.defines = "function" -> FunctionOf(i)
    [] m.defines = "other" -> NotAFunction
    [] OTHER -> Undefined

\* The global InitModule after r.RunProgram of the module at position i: the
\* modules share the interpreter r, so a module that defines nothing leaves
\* the value an earlier module stored.
GlobalAfter(g, m, i) ==
  CASE m.defines = "function" -> FunctionOf(i)
    [] m.defines = "other" -> NotAFunction
    [] OTHER -> g

\* goja.AssertFunction.
AssertFunction(g) == g.kind = "function"

\* Mutant: only a thrown exception of the initializer ends the evaluation.
InitFailed_OnlyException(outcome) == outcome = "exception"

\* err != nil after initModFn(...).
InitFailed(outcome) == outcome # "ok"

\* The hooks an initializer registers through the registrar.
RegsOf ==
  <<[mode |-> ModeRPC, id |-> <<"rpcid">>, fn |-> "fnA"],
    [mode |-> ModeBefore, id |-> RtPrefix \o <<"channeljoin">>, fn |-> "fnB"]>>

\* One call of the registrar: the callable is stored in initializer.Callbacks
\* and (mode, id) is announced to NewRuntimeProviderJS.
RegisterIn(st, a) ==
  [reg |-> Record(st.reg, a.mode, a.id, a.fn),
   tab |-> [Announce(st.tab, a.mode, a.id) EXCEPT !.ann = Append(st.tab.ann, a)]]

RECURSIVE RegisterAll(_, _)
RegisterAll(st, regs) ==
  IF regs = <<>> THEN st ELSE RegisterAll(RegisterIn(st, Head(regs)), Tail(regs))

EmptyRegistry == [rpc |-> <<>>, before |-> <<>>, after |-> <<>>]

\* evalRuntimeModules has not returned; NewRuntimeProviderJS has not returned.
NoEval == [callbacks |-> "pending", err |-> "pending"]
NoReturn == [tables |-> "pending", err |-> "pending"]
\* The locals of evalRuntimeModules before the loop, no module list given.
NoBoot ==
  [mods |-> <<>>, pc |-> "off", idx |-> 1, global |-> Undefined,
   evald |-> <<>>, ran |-> <<>>, result |-> NoEval, ret |-> NoReturn]

\* ------------------------------------------------------ invocation context
\* The property names of the context object.
CtxAlways == {"node", "env", "execution_mode"}
CtxOptional ==
  {"query_params", "user_session_exp", "user_id", "username", "vars",
   "session_id", "client_ip", "client_port"}

\* Argument values: a Go map is nil, empty or not; an int64; a string.
GoMap(n) == [kind |-> "map", val |-> n]
MapArgs == {GoNil, GoMap(0), GoMap(1)}
IntArgs == {0, 1, -1}
StrArgs == {"", "x"}

\* The arguments of InvokeFunction that reach NewRuntimeJsContext.
CtxArgs ==
  [mode : {ModeRPC, ModeBefore, ModeAfter},
   queryParams : MapArgs, sessionExpiry : IntArgs, userID : StrArgs,
   username : StrArgs, vars : {GoNil, GoMap(1)}, sessionID : StrArgs,
   clientIP : StrArgs, clientPort : StrArgs]
NoCtxArgs ==
  [mode |-> "none", queryParams |-> GoNil, sessionExpiry |-> 0, userID |-> "",
   username |-> "", vars |-> GoNil, sessionID |-> "", clientIP |-> "",
   clientPort |-> ""]

\* r.node and r.env of the instance.
Node == "node1"
Env == [kind |-> "env"]

\* A script object: its identity and its own properties.  NoObject is no object.
NoObject == [id |-> 0, props |-> <<>>]
\* The context object an earlier call on the same interpreter built, every
\* property set.
EarlierCtx ==
  [id |-> 1,
   props |-> [k \in CtxAlways \cup CtxOptional |->
                CASE k = "node" -> Node
                  [] k = "env" -> Env
                  [] k = "execution_mode" -> ModeRPC
                  [] k \in {"query_params", "vars"} -> GoMap(1)
                  [] k = "user_session_exp" -> 1
                  [] OTHER -> "x"]]

\* Mutant: the interpreter hands out the object it made last.
NewObject_Reuse(prev) == IF prev = NoObject THEN [id |-> 1, props |-> <<>>] ELSE prev

\* r.NewObject(): a new object with no properties; prev is the newest object
\* of the interpreter.
NewObject(prev) == [id |-> prev.id + 1, props |-> <<>>]

\* ctxObj.Set(k, v), and the same under a condition.
ObjSet(o, k, v) == [o EXCEPT !.props = MapSet(o.props, k, v)]
SetIf(cond, o, k, v) == IF cond THEN ObjSet(o, k, v) ELSE o

\* NewRuntimeJsContext.
NewRuntimeJsContext(prev, node, env, a) ==
  LET c0 == NewObject(prev)
      c1 == ObjSet(c0, "node", node)
      c2 == ObjSet(c1, "env", env)
      c3 == ObjSet(c2, "execution_mode", a.mode)
      c4 == SetIf(a.queryParams # GoNil, c3, "query_params", a.queryParams)
      c5 == SetIf(a.sessionExpiry # 0, c4, "user_session_exp", a.sessionExpiry)
      c6 == SetIf(a.userID # "", c5, "user_id", a.userID)
      c7 == SetIf(a.username # "", c6, "username", a.username)
      c8 == SetIf(a.vars # GoNil, c7, "vars", a.vars)
      c9 == SetIf(a.sessionID # "", c8, "session_id", a.sessionID)
      c10 == SetIf(a.clientIP # "", c9, "client_ip", a.clientIP)
  IN SetIf(a.clientPort # "", c10, "client_port", a.clientPort)

\* ------------------------------------------------------- invocation errors
\* What fn(...) can come back with: an uncaught exception (its Error() text
\* and its String() text with the stack trace), another error (its text), or
\* a value.
Exceptions == [kind : {"exception"}, text : {"e1", "e2"}, trace : {"e1 at f", "e2 at g"}]
OtherErrors == [kind : {"error"}, text : {"m1", "m2"}]
ReturnValues == {GoNil, JsUndefined, JsNull, Str(0), Str(1), Num(0), Obj(<<>>)}
FnOutcomes == Exceptions \cup OtherErrors \cup ReturnValues

\* JsErrorType.String().
TypeString(t) == IF t = "JsErrorException" THEN "exception" ELSE ""

\* No error (a nil error).
NilError == [StackTrace |-> "", Type |-> "nil", Message |-> "", error |-> ""]

\* Mutant: the call passes the exception's texts in the wrong order.
NewJsExceptionError_Swapped(t, error, st) ==
  [StackTrace |-> error, Type |-> TypeString(t), Message |-> "", error |-> st]

\* newJsExceptionError.
NewJsExceptionError(t, error, st) ==
  [StackTrace |-> st, Type |-> TypeString(t), Message |-> "", error |-> error]

\* newJsError.
NewJsError(t, err) ==
  [StackTrace |-> "", Type |-> TypeString(t), Message |-> err, error |-> err]

\* The error value InvokeFunction returns for what fn(...) came back with.
JsErrorOf(v) ==
  CASE InvokeFunction(v).err = "JsErrorException" ->
         NewJsExceptionError("JsErrorException", v.text, v.trace)
    [] InvokeFunction(v).err = "JsErrorRuntime" -> NewJsError("JsErrorRuntime", v.text)
    [] OTHER -> NilError

\* One call of InvokeFunction: where it is, the newest object of r.vm before
\* it, its arguments, the context it built, what fn came back with, and what
\* InvokeFunction returned.
NoInvoke ==
  [pc |-> "off", prev |-> NoObject, args |-> NoCtxArgs, ctx |-> NoObject,
   out |-> GoNil, ret |-> [result |-> GoNil, err |-> NilError, code |-> "none"]]

\* ------------------------------------------------------------- rest values
\* The values of the variables a specification does not use.
BridgeRest ==
  /\ hook = NoHook
  /\ heap = NoHeap
  /\ entry = NoHeap
  /\ jsonpb = [emitDefaults |-> FALSE, allowUnknown |-> FALSE]
LookupRest == found = NoLookup
WiringRest == wired = NoTables /\ boot = NoBoot
InvokeRest == call = NoInvoke
LoaderRest ==
  /\ paths = <<>>
  /\ pathIdx = 1
  /\ moduleCache = EmptyCache
  /\ cacheResult = NoResult
  /\ added = <<>>
\* A running pool of one instance, the instance being checked out.
PoolRest ==
  /\ minCount = 0
  /\ maxCount = 1
  /\ phase = "running"
  /\ warmed = 0
  /\ poolCh = <<>>
  /\ currentCount = 1
  /\ constructed = 1
  /\ justPut = NoInstance
  /\ pc = [p \in Procs |-> "idle"]
  /\ op = [p \in Procs |-> "none"]
  /\ ctx = [p \in Procs |-> "live"]
  /\ r = [p \in Procs |-> NoInstance]
  /\ cc = [p \in Procs |-> 0]
  /\ last = NoCall

\* ------------------------------------------------------------------- Init
\* MinCount is read from the configuration unchecked: it may exceed MaxCount,
\* by more than the number of callers too.
Init ==
  /\ maxCount \in 1..MaxPool
  /\ minCount \in 0..(maxCount + NumProcs)
  /\ hasModules \in BOOLEAN
  /\ callbacks = EvalRuntimeModules(hasModules)
  /\ phase = "warmup"
  /\ warmed = 0
  /\ poolCh = <<>>
  /\ currentCount = minCount
  /\ constructed = 0
  /\ justPut = NoInstance
  /\ pc = [p \in Procs |-> "idle"]
  /\ op = [p \in Procs |-> "none"]
  /\ ctx = [p \in Procs |-> "live"]
  /\ r = [p \in Procs |-> NoInstance]
  /\ cc = [p \in Procs |-> 0]
  /\ last = NoCall
  /\ BridgeRest
  /\ LookupRest
  /\ WiringRest
  /\ InvokeRest
  /\ LoaderRest

\* No return is waiting to be observed: the program takes steps only then.
Quiet == last = NoCall

\* ---------------------------------------------------------------- startup
\* One iteration of the warm-up loop: poolCh <- newFn().  newFn() is evaluated
\* first; the send then blocks for ever when the channel is already full.
WarmUp ==
  /\ Quiet
  /\ phase = "warmup"
  /\ hasModules
  /\ warmed < minCount
  /\ constructed' = constructed + 1
  /\ IF Len(poolCh) < PoolCap
       THEN /\ poolCh' = Append(poolCh, constructed + 1)
            /\ warmed' = warmed + 1
            /\ phase' = phase
       ELSE /\ phase' = "blocked"
            /\ UNCHANGED <<poolCh, warmed>>
  /\ UNCHANGED <<data, config, currentCount, justPut, pc, op, ctx, r, cc, last>>

\* NewRuntimeProviderJS returns: the loop is skipped without modules.
StartupDone ==
  /\ Quiet
  /\ phase = "warmup"
  /\ (~hasModules \/ warmed = minCount)
  /\ phase' = "running"
  /\ UNCHANGED <<data, config, warmed, poolCh, currentCount, constructed, justPut,
                 pc, op, ctx, r, cc, last>>

\* ------------------------------------------------------------------ calls
\* Operation o of caller p returns along path pth after n calls of rp.Put:
\* its locals die, and the return is recorded in last.
Return(p, o, pth, n) ==
  /\ pc' = [pc EXCEPT ![p] = "idle"]
  /\ op' = [op EXCEPT ![p] = "none"]
  /\ ctx' = [ctx EXCEPT ![p] = "live"]
  /\ r' = [r EXCEPT ![p] = NoInstance]
  /\ cc' = [cc EXCEPT ![p] = 0]
  /\ last' = [op |-> o, by |-> p, path |-> pth, puts |-> n, inst |-> r[p], cc |-> cc[p]]

\* A caller enters an operation.  Every operation starts with rp.Get(ctx), and
\* Get does not depend on which operation called it, so the operation is drawn
\* when Get hands its result over.
Call(p) ==
  /\ Quiet
  /\ phase = "running"
  /\ pc[p] = "idle"
  /\ \E c \in {"live", "cancelled"} : ctx' = [ctx EXCEPT ![p] = c]
  /\ pc' = [pc EXCEPT ![p] = "get_select"]
  /\ last' = NoCall
  /\ UNCHANGED <<data, config, startup, poolCh, currentCount, constructed, justPut, op, r, cc>>

\* The caller's context is cancelled or expires while Get is blocked in its
\* second select (a cancellation after the first select is first seen there).
Cancel(p) ==
  /\ Quiet
  /\ pc[p] = "get_wait"
  /\ ctx[p] = "live"
  /\ ctx' = [ctx EXCEPT ![p] = "cancelled"]
  /\ last' = NoCall
  /\ UNCHANGED <<data, config, startup, poolCh, currentCount, constructed, justPut,
                 pc, op, r, cc>>

\* Mutant: the operation releases r before it looks at Get's error.
GetFails_Releases(p) ==
  /\ \E o \in Ops : Return(p, o, "ctx_err", 1)
  /\ poolCh' = PutCh(poolCh, r[p])

\* Get returned (nil, ctx.Err()): every operation hands the error to its caller.
GetFails(p) ==
  /\ \E o \in Ops : Return(p, o, "ctx_err", 0)
  /\ UNCHANGED poolCh

\* Get returned the instance received from poolCh.
GetReceives(p) ==
  /\ poolCh # <<>>
  /\ r' = [r EXCEPT ![p] = RecvValue(poolCh)]
  /\ poolCh' = RecvRest(poolCh)
  /\ pc' = [pc EXCEPT ![p] = "acquired"]
  /\ ctx' = [ctx EXCEPT ![p] = "live"]
  /\ cc' = [cc EXCEPT ![p] = 0]
  /\ last' = NoCall
  /\ op' = op

\* Get, first select: ctx.Done() and the receive are chosen among the ready
\* cases; default runs only when neither is ready.
GetSelect(p) ==
  /\ Quiet
  /\ pc[p] = "get_select"
  /\ \/ ctx[p] = "cancelled" /\ GetFails(p)
     \/ GetReceives(p)
     \/ /\ ctx[p] = "live"
        /\ poolCh = <<>>
        /\ pc' = [pc EXCEPT ![p] = "get_load"]
        /\ last' = NoCall
        /\ UNCHANGED <<poolCh, op, ctx, r, cc>>
  /\ justPut' = NoInstance
  /\ UNCHANGED <<data, config, startup, currentCount, constructed>>

\* Get, default branch: rp.currentCount.Load() >= rp.maxCount.
GetLoad(p) ==
  /\ Quiet
  /\ pc[p] = "get_load"
  /\ pc' = [pc EXCEPT ![p] = IF LoadRefuses(currentCount) THEN "get_wait" ELSE "get_inc"]
  /\ justPut' = NoInstance
  /\ last' = NoCall
  /\ UNCHANGED <<data, config, startup, poolCh, currentCount, constructed, op, ctx, r, cc>>

\* Get, default branch: currentCount := rp.currentCount.Inc(), the recheck, and
\* rp.newFn() when the recheck allows it.
GetInc(p) ==
  /\ Quiet
  /\ pc[p] = "get_inc"
  /\ currentCount' = currentCount + 1
  /\ IF IncRefuses(currentCount + 1)
       THEN /\ pc' = [pc EXCEPT ![p] = "get_wait"]
            /\ cc' = [cc EXCEPT ![p] = currentCount + 1]
            /\ UNCHANGED <<constructed, r>>
       ELSE /\ constructed' = constructed + 1
            /\ r' = [r EXCEPT ![p] = constructed + 1]
            /\ pc' = [pc EXCEPT ![p] = "acquired"]
            /\ cc' = cc
  /\ justPut' = NoInstance
  /\ last' = NoCall
  /\ UNCHANGED <<data, config, startup, poolCh, op, ctx>>

\* Get, second select: wait for cancellation or for an idle instance.
GetWait(p) ==
  /\ Quiet
  /\ pc[p] = "get_wait"
  /\ \/ ctx[p] = "cancelled" /\ GetFails(p)
     \/ GetReceives(p)
  /\ justPut' = NoInstance
  /\ UNCHANGED <<data, config, startup, currentCount, constructed>>

\* rp.Put(r): non-blocking send of the caller's instance.
Put(p) ==
  /\ poolCh' = PutCh(poolCh, r[p])
  /\ justPut' = IF Len(poolCh) < PoolCap THEN r[p] ELSE NoInstance

\* rp.Put(r) at a return point of dispatcher o, when the code has one there.
Release(p, o, point) ==
  IF PutAt(o, point) THEN Put(p) ELSE UNCHANGED <<poolCh, justPut>>

Released(o, point) == IF PutAt(o, point) THEN 1 ELSE 0

\* A caller that used Get directly gives the instance back with Put.
ClientPut(p) ==
  /\ Quiet
  /\ pc[p] = "acquired"
  /\ Put(p)
  /\ Return(p, "Get", "ok", 1)
  /\ UNCHANGED <<data, config, startup, currentCount, constructed>>

\* A dispatcher after a successful Get: GetCallback, then the conversion of the
\* arguments; it returns early (with Put) or starts the script callable.
Dispatch(p) ==
  /\ Quiet
  /\ pc[p] = "acquired"
  /\ \E o \in Dispatchers : \E pth \in PrePaths(o) :
       CASE pth = "notfound" ->
              /\ Release(p, o, "notfound")
              /\ Return(p, o, pth, Released(o, "notfound"))
         [] pth = "ok" ->
              /\ pc' = [pc EXCEPT ![p] = "invoking"]
              /\ op' = [op EXCEPT ![p] = o]
              /\ last' = NoCall
              /\ UNCHANGED <<poolCh, justPut, ctx, r, cc>>
         [] OTHER ->
              /\ Release(p, o, "prefail")
              /\ Return(p, o, pth, Released(o, "prefail"))
  /\ UNCHANGED <<data, config, startup, currentCount, constructed>>

\* InvokeFunction returns; the dispatcher releases the instance (when it does)
\* and interprets the result.
InvokeReturn(p) ==
  /\ Quiet
  /\ pc[p] = "invoking"
  /\ Release(p, op[p], "invoked")
  /\ \E pth \in PostPaths(op[p]) : Return(p, op[p], pth, Released(op[p], "invoked"))
  /\ UNCHANGED <<data, config, startup, currentCount, constructed>>

\* The record of the returned call is dropped before the program's next step:
\* last describes the step just taken and nothing older.
Observe ==
  /\ last # NoCall
  /\ last' = NoCall
  /\ UNCHANGED <<data, config, startup, poolCh, currentCount, constructed, justPut,
                 pc, op, ctx, r, cc>>

Next ==
  \/ Observe
  \/ WarmUp
  \/ StartupDone
  \/ \E p \in Procs : Call(p)
  \/ \E p \in Procs : Cancel(p)
  \/ \E p \in Procs : GetSelect(p)
  \/ \E p \in Procs : GetLoad(p)
  \/ \E p \in Procs : GetInc(p)
  \/ \E p \in Procs : GetWait(p)
  \/ \E p \in Procs : ClientPut(p)
  \/ \E p \in Procs : Dispatch(p)
  \/ \E p \in Procs : InvokeReturn(p)

Spec == Init /\ [][Next]_vars

\* ================================================================ FairSpec
\* Spec with the progress of startup: NewRuntimeProviderJS runs in the
\* goroutine that starts the server and nothing but its own channel send can
\* hold it up, so an iteration of the warm-up loop that can run does run, and
\* so does the return after the loop.
FairSpec == Spec /\ WF_vars(WarmUp) /\ WF_vars(StartupDone)

\* ================================================================= PutSpec
\* The pool used through Get and Put alone.  Put is exported and takes any
\* *RuntimeJS, so a caller may hand in the instance it holds more than once;
\* the dispatchers never do (they are the callers of Spec).
ExtraPut(p) ==
  /\ Quiet
  /\ pc[p] = "acquired"
  /\ Put(p)
  /\ last' = [op |-> "Put", by |-> p, path |-> "ok", puts |-> 1, inst |-> r[p], cc |-> cc[p]]
  /\ UNCHANGED <<data, config, startup, currentCount, constructed, pc, op, ctx, r, cc>>

PutNext ==
  \/ Observe
  \/ WarmUp
  \/ StartupDone
  \/ \E p \in Procs : Call(p)
  \/ \E p \in Procs : Cancel(p)
  \/ \E p \in Procs : GetSelect(p)
  \/ \E p \in Procs : GetLoad(p)
  \/ \E p \in Procs : GetInc(p)
  \/ \E p \in Procs : GetWait(p)
  \/ \E p \in Procs : ClientPut(p)
  \/ \E p \in Procs : ExtraPut(p)

PutSpec == Init /\ [][PutNext]_vars

\* ================================================================ HookSpec
\* One dispatcher call, from the point where rp.Get has returned instance r,
\* with the values it carries: what the caller passed in, what the script
\* receives, what the script returns and what the dispatcher returns.
HookInit ==
  /\ PoolRest
  /\ hasModules \in BOOLEAN
  /\ callbacks = EvalRuntimeModules(hasModules)
  /\ jsonpb \in [emitDefaults : BOOLEAN, allowUnknown : BOOLEAN]
  /\ hook \in {[NoHook EXCEPT !.pc = "lookup", !.op = o, !.id = i, !.r = constructed] :
                 o \in Dispatchers, i \in Ids}
  /\ heap \in ArgObjects(hook.op)
  /\ entry = heap
  /\ LookupRest
  /\ WiringRest
  /\ InvokeRest
  /\ LoaderRest

\* rp.Put(r) at a return point of the running dispatcher, when it has one there.
HookRelease(point) ==
  poolCh' = IF PutAt(hook.op, point) THEN PutCh(poolCh, hook.r) ELSE poolCh

\* jsFn := r.GetCallback(mode, id); if jsFn == nil { rp.Put(r); return not found }
HookLookup ==
  /\ hook.pc = "lookup"
  /\ IF GetCallback(ModeOf(hook.op), hook.id) = NilFn
       THEN /\ HookRelease("notfound")
            /\ hook' = [hook EXCEPT !.pc = "done", !.path = "notfound",
                                    !.puts = Released(hook.op, "notfound"),
                                    !.ret = RetOf(hook.op, "notfound", GoNil, "none")]
       ELSE /\ hook' = [hook EXCEPT !.pc = "convert"]
            /\ UNCHANGED poolCh
  /\ UNCHANGED <<heap, entry, jsonpb, found, loader, hasModules, callbacks, poolRest>>

\* The arguments are turned into generic maps (res first, then req); a failed
\* cast, marshal or unmarshal returns an error after rp.Put(r).
HookConvert ==
  /\ hook.pc = "convert"
  /\ \E resOut \in ToMapOutcomes(hook.op, heap.res.kind),
        reqOut \in ToMapOutcomes(hook.op, heap.req.kind) :
       LET pth == PrePath(resOut, reqOut) IN
       IF pth = "ok"
         THEN /\ hook' = [hook EXCEPT !.pc = "invoke",
                            !.payloads = PayloadsOf(hook.op, heap, jsonpb.emitDefaults)]
              /\ UNCHANGED poolCh
         ELSE /\ HookRelease("prefail")
              /\ hook' = [hook EXCEPT !.pc = "done", !.path = pth,
                                      !.puts = Released(hook.op, "prefail"),
                                      !.ret = RetOf(hook.op, pth, GoNil, "none")]
  /\ UNCHANGED <<heap, entry, jsonpb, found, loader, hasModules, callbacks, poolRest>>

\* r.InvokeFunction(...): the script callable runs once on the payloads and
\* ends in any way it can; then rp.Put(r) in the dispatchers that have it.
HookInvoke ==
  /\ hook.pc = "invoke"
  /\ \E v \in CallOutcomes :
       LET inv == InvokeFunction(v) IN
       hook' = [hook EXCEPT !.pc = "project", !.calls = @ + 1, !.out = v,
                            !.result = inv.result, !.fnErr = inv.err,
                            !.puts = Released(hook.op, "invoked")]
  /\ HookRelease("invoked")
  /\ UNCHANGED <<heap, entry, jsonpb, found, loader, hasModules, callbacks, poolRest>>

\* Mutant: a dispatcher whose hook failed calls the hook a second time.
HookProject_Retry ==
  /\ hook.pc = "project"
  /\ LET reqNil == heap.req = GoNil
         attempt == Projects(hook.op) /\ hook.result # GoNil /\ heap.req.kind = "msg"
         pr == IF attempt THEN Projection(hook.result, heap.req, jsonpb.allowUnknown)
               ELSE [post |-> "ok", obj |-> heap.req]
         pth == PostPath(hook.op, reqNil, OutcomeOf(hook.out), pr.post)
     IN /\ heap' = [heap EXCEPT !.req = pr.obj]
        /\ hook' = IF pth = "fn_err" /\ hook.calls < 2
                     THEN [hook EXCEPT !.pc = "invoke"]
                     ELSE IF pth = "panic"
                     THEN [hook EXCEPT !.pc = "crashed", !.path = pth]
                     ELSE [hook EXCEPT !.pc = "done", !.path = pth,
                             !.ret = RetOf(hook.op, pth, hook.result, hook.fnErr)]
  /\ UNCHANGED <<entry, jsonpb, found, loader, hasModules, callbacks, poolCh, poolRest>>

\* The dispatcher interprets the result: the error return, the nil-result
\* return, the projection onto the caller's object, the final return.  Rpc
\* calls retValue.Export() whatever retValue is, which panics on nil.
HookProject ==
  /\ hook.pc = "project"
  /\ LET reqNil == heap.req = GoNil
         attempt == Projects(hook.op) /\ hook.result # GoNil /\ heap.req.kind = "msg"
         pr == IF attempt THEN Projection(hook.result, heap.req, jsonpb.allowUnknown)
               ELSE [post |-> "ok", obj |-> heap.req]
         pth == PostPath(hook.op, reqNil, OutcomeOf(hook.out), pr.post)
     IN /\ heap' = [heap EXCEPT !.req = pr.obj]
        /\ hook' = IF pth = "panic"
                     THEN [hook EXCEPT !.pc = "crashed", !.path = pth]
                     ELSE [hook EXCEPT !.pc = "done", !.path = pth,
                             !.ret = RetOf(hook.op, pth, hook.result, hook.fnErr)]
  /\ UNCHANGED <<entry, jsonpb, found, loader, hasModules, callbacks, poolCh, poolRest>>

HookNext ==
  \/ HookLookup
  \/ HookConvert
  \/ HookInvoke
  \/ HookProject

HookSpec == HookInit /\ [][HookNext]_vars

\* ============================================================== LookupSpec
\* GetCallback applied to every mode and key, over every registry content.
LookupInit ==
  /\ PoolRest
  /\ hasModules = TRUE
  /\ callbacks \in Registries
  /\ BridgeRest
  /\ LookupRest
  /\ WiringRest
  /\ InvokeRest
  /\ LoaderRest

LookupCall ==
  /\ \E e \in Modes, key \in Ids :
       found' = [mode |-> e, key |-> key, fn |-> GetCallback(e, key)]
  /\ UNCHANGED <<bridge, loader, hasModules, callbacks, poolCh, poolRest>>

LookupNext == LookupCall

LookupSpec == LookupInit /\ [][LookupNext]_vars

\* =============================================================== CacheSpec
\* cacheJavascriptModules over every list of at most MaxPaths paths.
PathLists == UNION {[1..n -> Paths] : n \in 0..MaxPaths}

CacheInit ==
  /\ PoolRest
  /\ hasModules = FALSE
  /\ callbacks = EvalRuntimeModules(FALSE)
  /\ BridgeRest
  /\ LookupRest
  /\ WiringRest
  /\ InvokeRest
  /\ paths \in PathLists
  /\ pathIdx = 1
  /\ moduleCache = EmptyCache
  /\ cacheResult = NoResult
  /\ added = <<>>

\* One iteration of the range loop: a path without the script extension is
\* skipped; otherwise the file is read and compiled, either of which may fail
\* and end the function, and the module is added.
CacheNextPath ==
  /\ cacheResult = NoResult
  /\ pathIdx <= Len(paths)
  /\ LET path == paths[pathIdx] IN
       IF ~IsScript(path)
         THEN /\ pathIdx' = pathIdx + 1
              /\ UNCHANGED <<moduleCache, cacheResult, added>>
         ELSE \E file \in {"ok", "read_err", "compile_err"} :
                IF file = "ok"
                  THEN /\ moduleCache' = Add(moduleCache, ModuleOf(path))
                       /\ added' = Append(added, ModuleOf(path))
                       /\ pathIdx' = pathIdx + 1
                       /\ UNCHANGED cacheResult
                  ELSE /\ cacheResult' = [cache |-> NilCache, err |-> file]
                       /\ UNCHANGED <<pathIdx, moduleCache, added>>
  /\ UNCHANGED <<paths, bridge, found, hasModules, callbacks, poolCh, poolRest>>

\* return moduleCache, nil
CacheReturn ==
  /\ cacheResult = NoResult
  /\ pathIdx > Len(paths)
  /\ cacheResult' = [cache |-> moduleCache, err |-> "none"]
  /\ UNCHANGED <<paths, pathIdx, moduleCache, added, bridge, found, hasModules,
                 callbacks, poolCh, poolRest>>

CacheNext ==
  \/ CacheNextPath
  \/ CacheReturn

CacheSpec == CacheInit /\ [][CacheNext]_vars

\* ================================================================ EvalSpec
\* NewRuntimeProviderJS from the call of evalRuntimeModules to its return:
\* the loop over modCache.Names in the shared interpreter r, the registrations
\* the initializers make, the error return and the warm-up.
EvalInit ==
  /\ boot \in {[NoBoot EXCEPT !.mods = ms, !.pc = "run"] : ms \in ModuleLists}
  /\ wired = NoTables
  /\ callbacks = EmptyRegistry
  /\ hasModules = (Len(boot.mods) > 0)
  /\ maxCount = MaxPool
  /\ minCount \in 0..(maxCount + 1)
  /\ phase = "warmup"
  /\ warmed = 0
  /\ poolCh = <<>>
  /\ currentCount = minCount
  /\ constructed = 0
  /\ justPut = NoInstance
  /\ pc = [p \in Procs |-> "idle"]
  /\ op = [p \in Procs |-> "none"]
  /\ ctx = [p \in Procs |-> "live"]
  /\ r = [p \in Procs |-> NoInstance]
  /\ cc = [p \in Procs |-> 0]
  /\ last = NoCall
  /\ BridgeRest
  /\ LookupRest
  /\ LoaderRest
  /\ InvokeRest

\* The variables neither evalRuntimeModules nor the registrar touches.
evalRest == <<bridge, found, loader, call, minCount, maxCount, hasModules, phase, warmed,
              poolCh, currentCount, constructed, justPut, pc, op, ctx, r, cc, last>>

\* _, err = r.RunProgram(modCache.Modules[modName].Program)
EvalRunProgram ==
  /\ boot.pc = "run"
  /\ boot.idx <= Len(boot.mods)
  /\ LET m == boot.mods[boot.idx] IN
       boot' = IF m.top = "throws"
                 THEN [boot EXCEPT !.pc = "returned",
                                   !.evald = Append(@, boot.idx),
                                   !.result = [callbacks |-> "nil", err |-> "eval"]]
                 ELSE [boot EXCEPT !.pc = "assert",
                                   !.evald = Append(@, boot.idx),
                                   !.global = GlobalAfter(@, m, boot.idx)]
  /\ UNCHANGED <<wired, callbacks, evalRest>>

\* initModFn, ok := goja.AssertFunction(r.Get(INIT_MODULE_FN_NAME))
EvalAssert ==
  /\ boot.pc = "assert"
  /\ boot' = IF AssertFunction(boot.global)
               THEN [boot EXCEPT !.pc = "init"]
               ELSE [boot EXCEPT !.pc = "returned",
                                 !.result = [callbacks |-> "nil",
                                             err |-> "InitModule function not found."]]
  /\ UNCHANGED <<wired, callbacks, evalRest>>

\* _, err = initModFn(goja.Null(), ctx, jsLoggerInst, nkInst, initializerInst):
\* the function found in the global runs and registers its hooks.
EvalInitModule ==
  /\ boot.pc = "init"
  /\ LET f == boot.global.of
         st == RegisterAll([reg |-> callbacks, tab |-> wired], RegsOf)
     IN /\ callbacks' = st.reg
        /\ wired' = st.tab
        /\ boot' = IF InitFailed(boot.mods[f].init)
                     THEN [boot EXCEPT !.pc = "returned",
                                       !.ran = Append(@, [at |-> boot.idx, of |-> f]),
                                       !.result = [callbacks |-> "nil",
                                                   err |-> boot.mods[f].init]]
                     ELSE [boot EXCEPT !.pc = "run",
                                       !.ran = Append(@, [at |-> boot.idx, of |-> f]),
                                       !.idx = @ + 1]
  /\ UNCHANGED evalRest

\* return initializer.Callbacks, nil
EvalReturn ==
  /\ boot.pc = "run"
  /\ boot.idx > Len(boot.mods)
  /\ boot' = [boot EXCEPT !.pc = "returned",
                          !.result = [callbacks |-> "initializer.Callbacks", err |-> "none"]]
  /\ UNCHANGED <<wired, callbacks, evalRest>>

\* NewRuntimeProviderJS after evalRuntimeModules: the error return, or the
\* warm-up loop and the return of the tables.
ProviderReturn ==
  /\ boot.pc = "returned"
  /\ IF boot.result.err # "none"
       THEN /\ boot' = [boot EXCEPT !.pc = "done",
                                    !.ret = [tables |-> "nil", err |-> boot.result.err]]
            /\ phase' = "failed"
            /\ UNCHANGED <<warmed, poolCh, constructed>>
       ELSE IF ~hasModules
         THEN /\ boot' = [boot EXCEPT !.pc = "done",
                                      !.ret = [tables |-> "tables", err |-> "none"]]
              /\ phase' = "running"
              /\ UNCHANGED <<warmed, poolCh, constructed>>
       ELSE IF minCount <= PoolCap
         THEN /\ boot' = [boot EXCEPT !.pc = "done",
                                      !.ret = [tables |-> "tables", err |-> "none"]]
              /\ phase' = "running"
              /\ warmed' = minCount
              /\ poolCh' = [i \in 1..minCount |-> i]
              /\ constructed' = minCount
       ELSE /\ boot' = [boot EXCEPT !.pc = "blocked"]
            /\ phase' = "blocked"
            /\ warmed' = PoolCap
            /\ poolCh' = [i \in 1..PoolCap |-> i]
            /\ constructed' = PoolCap + 1
  /\ UNCHANGED <<wired, callbacks, bridge, found, loader, call, minCount, maxCount,
                 hasModules, currentCount, justPut, pc, op, ctx, r, cc, last>>

EvalNext ==
  \/ EvalRunProgram
  \/ EvalAssert
  \/ EvalInitModule
  \/ EvalReturn
  \/ ProviderReturn

EvalSpec == EvalInit /\ [][EvalNext]_vars

\* =============================================================== CheckSpec
\* CheckRuntimeProviderJavascript: cacheJavascriptModules over the paths, then
\* evalRuntimeModules(nil, modCache, config, ...) unless caching failed.
\* boot.ret is what CheckRuntimeProviderJavascript returns.

\* evalRuntimeModules up to its loop: logger := rp.logger reads a field
\* through rp, which is a nil-pointer panic when rp is nil.
EvalEntry(rp) == IF rp = GoNil THEN "crashed" ELSE "run"

CheckInit == CacheInit

\* if err != nil { return err }
CheckReturnErr ==
  /\ boot.pc = "off"
  /\ cacheResult.err \notin {"pending", "none"}
  /\ boot' = [boot EXCEPT !.pc = "done", !.ret = [tables |-> "none", err |-> cacheResult.err]]
  /\ UNCHANGED <<wired, callbacks, evalRest>>

\* _, err = evalRuntimeModules(nil, modCache, config, func(...){})
CheckEval ==
  /\ boot.pc = "off"
  /\ cacheResult.err = "none"
  /\ boot' = [boot EXCEPT !.pc = EvalEntry(GoNil)]
  /\ UNCHANGED <<wired, callbacks, evalRest>>

CheckNext ==
  \/ CacheNextPath
  \/ CacheReturn
  \/ CheckReturnErr
  \/ CheckEval

CheckSpec == CheckInit /\ [][CheckNext]_vars

\* ================================================================= RegSpec
\* The registrar called by an initializer, one registration after another,
\* with any mode, id and callable.
RegInit ==
  /\ PoolRest
  /\ hasModules = TRUE
  /\ callbacks = EmptyRegistry
  /\ wired = NoTables
  /\ boot = NoBoot
  /\ BridgeRest
  /\ LookupRest
  /\ LoaderRest
  /\ InvokeRest

Register(mode, id, fn) ==
  /\ Len(wired.ann) < MaxRegs
  /\ LET st == RegisterIn([reg |-> callbacks, tab |-> wired],
                          [mode |-> mode, id |-> id, fn |-> fn])
     IN /\ callbacks' = st.reg
        /\ wired' = st.tab
  /\ UNCHANGED <<boot, evalRest>>

RegNext == \E mode \in RegModes, id \in RegIds, fn \in Callables : Register(mode, id, fn)

RegSpec == RegInit /\ [][RegNext]_vars

\* ============================================================== InvokeSpec
\* One call of RuntimeJS.InvokeFunction on an instance, fresh or used before.
InvokeInit ==
  /\ PoolRest
  /\ hasModules = TRUE
  /\ callbacks = EvalRuntimeModules(TRUE)
  /\ call \in {[NoInvoke EXCEPT !.pc = "entered", !.prev = o] : o \in {NoObject, EarlierCtx}}
  /\ BridgeRest
  /\ LookupRest
  /\ LoaderRest
  /\ WiringRest

\* The variables InvokeFunction never touches.
invokeRest == <<wiring, callbacks, bridge, found, loader, minCount, maxCount, hasModules, phase,
                warmed, poolCh, currentCount, constructed, justPut, pc, op, ctx, r, cc, last>>

\* ctx := NewRuntimeJsContext(r.vm, r.node, r.env, execMode, ...)
InvokeBuildCtx ==
  /\ call.pc = "entered"
  /\ \E a \in CtxArgs :
       call' = [call EXCEPT !.pc = "calling", !.args = a,
                            !.ctx = NewRuntimeJsContext(call.prev, Node, Env, a)]
  /\ UNCHANGED invokeRest

\* retVal, err := fn(goja.Null(), jv...) and the return statements after it.
InvokeRun ==
  /\ call.pc = "calling"
  /\ \E v \in FnOutcomes :
       call' = [call EXCEPT !.pc = "returned", !.out = v,
                            !.ret = [result |-> InvokeFunction(v).result,
                                     err |-> JsErrorOf(v),
                                     code |-> InvokeFunction(v).code]]
  /\ UNCHANGED invokeRest

InvokeNext ==
  \/ InvokeBuildCtx
  \/ InvokeRun

InvokeSpec == InvokeInit /\ [][InvokeNext]_vars

\* =================================================================== claims
\* Instances currently checked out, and the callers inside Get.
Held == {r[p] : p \in Procs} \ {NoInstance}
HookOps == {"BeforeRt", "AfterRt", "BeforeReq", "AfterReq"}

\* The interpreter in which caller p's script callable executes: fn(...) runs
\* in the interpreter that defined fn.
ExecVM(p) == CallableVM

\* C1: provided minCount <= maxCount, the number of instances ever constructed
\* (pre-warmed plus built by the factory inside Get), and so the number of idle
\* plus checked-out instances, never exceeds maxCount.
C1_NeverOverAllocate ==
  minCount <= maxCount =>
    /\ constructed <= maxCount
    /\ Len(poolCh) + Cardinality(Held) <= maxCount

\* C1 witness: the pool is at its ceiling, part pre-warmed and part built by
\* Get, after acquirers raced the counter past maxCount.
C1_Witness ==
  /\ phase = "running"
  /\ warmed > 0
  /\ constructed > warmed
  /\ constructed = maxCount
  /\ currentCount > maxCount

C3_OneScriptPerInterpreter ==
  \A p \in Procs : pc[p] = "invoking" =>
    /\ ExecVM(p) = InstanceVM(r[p])
    /\ \A q \in Procs : (q # p /\ pc[q] = "invoking") => ExecVM(q) # ExecVM(p)

\* C4: after startup a Get with a live context is never stuck: it is not
\* waiting while the idle queue is empty, no instance is checked out and no
\* instance can be constructed any more.
C4_GetNeverStuck ==
  ~ \E p \in Procs :
      /\ phase = "running"
      /\ pc[p] = "get_wait"
      /\ ctx[p] = "live"
      /\ poolCh = <<>>
      /\ Held = {}
      /\ currentCount >= maxCount
      /\ \A q \in Procs : pc[q] # "get_inc"

\* C5: a Get entered with a cancelled context returns the cancellation error
\* in every pool state, takes nothing from the idle queue, constructs nothing
\* and leaves the allocation counter alone.
C5_CancelledGetFails ==
  [][\A p \in Procs :
       (pc[p] = "get_select" /\ ctx[p] = "cancelled" /\ pc'[p] # "get_select") =>
         /\ last'.path = "ctx_err"
         /\ last'.by = p
         /\ poolCh' = poolCh
         /\ constructed' = constructed
         /\ currentCount' = currentCount]_vars

C7_NextGetReturnsPut ==
  [][\A p \in Procs :
       (justPut # NoInstance /\ pc[p] = "get_select" /\ ctx[p] = "live" /\ pc'[p] # pc[p]) =>
         r'[p] = justPut]_vars

\* C7 amended: after Put(x) into a queue with room x is the newest idle
\* instance, and the next Get returns the oldest idle instance (x itself when
\* nothing else was idle) without calling the factory or touching the counter.
C7_NextGetReusesIdle ==
  [][\A p \in Procs :
       (justPut # NoInstance /\ pc[p] = "get_select" /\ ctx[p] = "live" /\ pc'[p] # pc[p]) =>
         /\ poolCh # <<>>
         /\ poolCh[Len(poolCh)] = justPut
         /\ r'[p] = poolCh[1]
         /\ (Len(poolCh) = 1 => r'[p] = justPut)
         /\ pc'[p] = "acquired"
         /\ constructed' = constructed
         /\ currentCount' = currentCount]_vars

\* C7 witness: a Put has just enqueued x behind another idle instance and a
\* Get with a live context is about to run.
C7_Witness ==
  \E p \in Procs :
    /\ justPut # NoInstance
    /\ Len(poolCh) >= 2
    /\ pc[p] = "get_select"
    /\ ctx[p] = "live"

\* C8: an Rpc call that acquired an instance has called Put exactly once when
\* it returns, on every path.
C8_RpcPutsOnce ==
  (last.op = "Rpc" /\ last.inst # NoInstance) => last.puts = 1

C10_WaiterGetsReleased ==
  \A p \in Procs :
    (pc[p] = "get_wait" /\ ctx[p] = "live" /\ last.op = "Rpc" /\ last.inst # NoInstance)
      => last.inst \in Range(poolCh)


\* ---------------------------------------------------- claims on HookSpec
\* The script callable ran and InvokeFunction reported no error.
ScriptSucceeded == hook.calls = 1 /\ hook.pc \in {"project", "done", "crashed"} /\ hook.fnErr = "none"

\* C11: when no callback is registered for the requested (mode, id), every
\* dispatcher returns a not-found error without calling any script callable,
\* with the acquired instance back in the idle queue and the caller's objects
\* untouched; Rpc returns ("", ErrRuntimeRPCNotFound, NotFound) and BeforeReq
\* returns a nil result with status NotFound.
C11_NotFound ==
  (hook.pc \notin {"off", "lookup"} /\ GetCallback(ModeOf(hook.op), hook.id) = NilFn) =>
    /\ hook.pc = "done"
    /\ hook.path = "notfound"
    /\ hook.calls = 0
    /\ hook.puts = 1
    /\ poolCh = <<hook.r>>
    /\ heap = entry
    /\ hook.ret.err \in {"ErrRuntimeRPCNotFound", "Runtime Before function not found.",
                         "Runtime After function not found."}
    /\ (hook.op = "Rpc" =>
          hook.ret = [val |-> Str(0), err |-> "ErrRuntimeRPCNotFound", code |-> "NotFound"])
    /\ (hook.op = "BeforeReq" => (hook.ret.val = GoNil /\ hook.ret.code = "NotFound"))

\* C11 witness: BeforeReq was asked for an id nobody registered although the
\* loaded module registers another Before hook, and has returned.
C11_Witness ==
  /\ hook.op = "BeforeReq"
  /\ hook.pc = "done"
  /\ hasModules
  /\ hook.id \notin DOMAIN callbacks.before
  /\ entry.req.kind = "msg"

\* C12: for a registered RPC id, when the script callable returns without
\* error, Rpc returns and does not crash: (s, no error, OK) when the value is a
\* string s, and ("", an error, Internal) for any other value, nothing
\* (undefined, null) included.
C12_RpcResultShape ==
  (hook.op = "Rpc" /\ ScriptSucceeded /\ hook.pc # "project") =>
    /\ hook.pc = "done"
    /\ IF hook.out.kind = "str"
         THEN hook.ret = [val |-> hook.out, err |-> "none", code |-> "OK"]
         ELSE /\ hook.ret.val = Str(0)
              /\ hook.ret.err # "none"
              /\ hook.ret.code = "Internal"

\* C13: when a realtime Before hook returns nothing (undefined, null), BeforeRt
\* returns (nil, nil) and the caller's envelope is as it was; when the hook
\* returns the value it was given, BeforeRt returns the non-nil envelope.
C13_DropOnNothing ==
  (hook.op = "BeforeRt" /\ hook.pc = "done" /\ hook.calls = 1) =>
    /\ (hook.out.kind \in {"nil", "undefined", "null"} =>
          /\ hook.ret.val = GoNil
          /\ hook.ret.err = "none"
          /\ heap = entry)
    /\ (hook.out = hook.payloads[1] =>
          /\ hook.ret.val = SameObject
          /\ hook.ret.err = "none")

\* C13 witness: the hook of a non-empty envelope returned undefined and
\* BeforeRt has returned.
C13_Witness ==
  /\ hook.op = "BeforeRt"
  /\ hook.pc = "done"
  /\ hook.out = JsUndefined
  /\ entry.req.f["f1"] # 0

\* The envelope after a projection of object v over the content at entry:
\* every field v carries has v's value, every other field its original value.
MergedOver(v, before, after) ==
  \A f \in Fields :
    after.f[f] = IF f \in DOMAIN v.val THEN v.val[f] ELSE before.f[f]

\* A script value jsonpb can read into the message: an object whose properties
\* are fields of the message (or anything when unknown fields are allowed)
\* holding values of the fields' types.
Projectable(v) ==
  /\ v.kind = "obj"
  /\ (jsonpb.allowUnknown \/ DOMAIN v.val \subseteq Fields)
  /\ \A f \in (DOMAIN v.val) \cap Fields : v.val[f] # BadVal

\* C14 as stated: whenever a realtime Before hook returns a value, BeforeRt
\* returns the caller's envelope, overwritten in place with the script's fields.
C14_ValueOverwrites ==
  (hook.op = "BeforeRt" /\ hook.pc = "done" /\ ScriptSucceeded /\ hook.result # GoNil) =>
    /\ hook.ret.val = SameObject
    /\ hook.ret.err = "none"
    /\ hook.out.kind = "obj"
    /\ MergedOver(hook.out, entry.req, heap.req)

\* C14 amended: when the value the hook returns can be read into the envelope,
\* BeforeRt returns the caller's envelope overwritten in place: the fields the
\* returned object carries take its values, every other field keeps its
\* original value, and returning the input unchanged leaves the envelope equal
\* to the original.  For any other value BeforeRt returns a nil envelope and an
\* error.
C14_ProjectableValueOverwrites ==
  (hook.op = "BeforeRt" /\ hook.pc = "done" /\ ScriptSucceeded /\ hook.result # GoNil) =>
    IF Projectable(hook.out)
      THEN /\ hook.ret.val = SameObject
           /\ hook.ret.err = "none"
           /\ MergedOver(hook.out, entry.req, heap.req)
           /\ (hook.out = hook.payloads[1] => heap.req = entry.req)
      ELSE /\ hook.ret.val = GoNil
           /\ hook.ret.err = "Could not complete runtime Before function."

\* C14 witness: the hook returned an object that sets f1 to a new value and
\* does not carry f2, whose original value is not the zero value.
C14_Witness ==
  /\ hook.op = "BeforeRt"
  /\ hook.pc = "done"
  /\ hook.out.kind = "obj"
  /\ DOMAIN hook.out.val = {"f1"}
  /\ hook.out.val["f1"] \notin {BadVal, entry.req.f["f1"]}
  /\ entry.req.f["f2"] # 0

\* C15: BeforeReq called with a nil request calls the hook once with a null
\* payload and, whatever the script returns, attempts no projection of the
\* result and returns (nil, nil, OK) when the script did not fail.
C15_NilRequestNoProjection ==
  (hook.op = "BeforeReq" /\ entry.req = GoNil /\ hook.pc \in {"project", "done"}
     /\ hook.path # "notfound") =>
    /\ hook.calls = 1
    /\ hook.payloads = <<JsNull>>
    /\ heap = entry
    /\ (hook.pc = "done" =>
          /\ hook.path \in {"fn_err", "no_override"}
          /\ (hook.fnErr = "none" =>
                hook.ret = [val |-> GoNil, err |-> "none", code |-> "OK"]))

\* C15 witness: the hook, called by BeforeReq without a request, returned an
\* object with a field set, and BeforeReq has returned.
C15_Witness ==
  /\ hook.op = "BeforeReq"
  /\ hook.pc = "done"
  /\ entry.req = GoNil
  /\ hook.out.kind = "obj"
  /\ "f1" \in DOMAIN hook.out.val

\* C16: when BeforeReq is given a request and the hook returns a value, the
\* value returned carries the script's fields while the request object the
\* caller passed in keeps its original field values (the result is read into
\* a copy).
C16_BeforeReqCopies ==
  (hook.op = "BeforeReq" /\ hook.pc = "done" /\ ScriptSucceeded /\ hook.result # GoNil
     /\ entry.req.kind = "msg" /\ hook.ret.err = "none") =>
    /\ hook.ret.val # GoNil
    /\ heap.req = entry.req

\* C17: AfterRt and AfterReq leave the envelope, response and request they are
\* given as they were, and return nil whenever the script did not fail,
\* whatever value the hook returned.
C17_AfterDiscardsResult ==
  hook.op \in {"AfterRt", "AfterReq"} =>
    /\ heap = entry
    /\ ((hook.pc = "done" /\ ScriptSucceeded) =>
          (hook.ret.err = "none" /\ hook.path = "ok"))

\* C17 witness: an AfterReq hook returned an object that differs from both
\* the response and the request it was given, and AfterReq has returned.
C17_Witness ==
  /\ hook.op = "AfterReq"
  /\ hook.pc = "done"
  /\ entry.res.kind = "msg"
  /\ entry.req.kind = "msg"
  /\ hook.out.kind = "obj"
  /\ hook.out # hook.payloads[1]
  /\ hook.out # hook.payloads[2]
  /\ DOMAIN hook.out.val = Fields

\* -------------------------------------------------- claims on LookupSpec
\* C18: GetCallback returns no callable for the reserved modes Matchmaker,
\* TournamentEnd, TournamentReset and LeaderboardReset, whatever the key and
\* the registry hold; for RPC, Before and After it returns the entry of that
\* mode's own table (nil when the table has none), so a hook registered under
\* one mode only is not resolved under another.
C18_LookupByMode ==
  found # NoLookup =>
    /\ (found.mode \in ReservedModes => found.fn = NilFn)
    /\ (found.mode = ModeRPC => found.fn = TableGet(callbacks.rpc, found.key))
    /\ (found.mode = ModeBefore => found.fn = TableGet(callbacks.before, found.key))
    /\ (found.mode = ModeAfter => found.fn = TableGet(callbacks.after, found.key))
    /\ (found.fn # NilFn =>
          \/ found.mode = ModeRPC /\ found.key \in DOMAIN callbacks.rpc
          \/ found.mode = ModeBefore /\ found.key \in DOMAIN callbacks.before
          \/ found.mode = ModeAfter /\ found.key \in DOMAIN callbacks.after)

\* C18 witness: a key registered under RPC and Before, but not under After,
\* was looked up under After and nothing was found.
C18_Witness ==
  /\ found.mode = ModeAfter
  /\ found.key \in (DOMAIN callbacks.rpc) \cap (DOMAIN callbacks.before)
  /\ found.key \notin DOMAIN callbacks.after
  /\ found.fn = NilFn

\* --------------------------------------------------- claims on CacheSpec
\* The cache after the modules ms were added one by one to an empty cache.
RECURSIVE AddAll(_)
AddAll(ms) ==
  IF ms = <<>> THEN EmptyCache
  ELSE Add(AddAll(SubSeq(ms, 1, Len(ms) - 1)), ms[Len(ms)])

Ascending(names) ==
  \A i, j \in DOMAIN names : i < j => ~LexLess(names[j], names[i])

\* C19: after any sequence of Add calls the name list is in ascending
\* lexicographic order, and it is the list that adding the same modules in any
\* other order produces.
C19_NamesSortedAnyOrder ==
  /\ Ascending(moduleCache.Names)
  /\ \A perm \in Permutations(DOMAIN added) :
       AddAll([i \in DOMAIN added |-> added[perm[i]]]).Names = moduleCache.Names

\* C19 witness: three modules with three different names were added, the
\* first one added having the greatest name and the last one the smallest.
C19_Witness ==
  /\ Len(added) = 3
  /\ LexLess(added[3].Name, added[2].Name)
  /\ LexLess(added[2].Name, added[1].Name)

\* The script-extension paths among the arguments, and the paths of the
\* modules a cache holds.
ScriptPaths == {paths[i] : i \in {j \in DOMAIN paths : IsScript(paths[j])}}
CachedPaths(c) == {c.Modules[n].Path : n \in DOMAIN c.Modules}

\* C20: cacheJavascriptModules is all-or-nothing: a failed read or compile
\* gives an error and no cache; without a failure it gives no error, whatever
\* paths without the script extension the list holds, and a cache that holds
\* exactly the script-extension paths, each once in the name list.
C20_AllOrNothing ==
  /\ (cacheResult.err \in {"read_err", "compile_err"} => cacheResult.cache = NilCache)
  /\ (cacheResult.err = "none" =>
        /\ cacheResult.cache # NilCache
        /\ Len(cacheResult.cache.Names) = Cardinality({j \in DOMAIN paths : IsScript(paths[j])})
        /\ CachedPaths(cacheResult.cache) = ScriptPaths)

\* The step just taken was a call of rp.Put by caller p (rp.Put is the last
\* thing a returning call does, or the whole step of a bare Put).
PutBy(p) == last'.by = p /\ last'.puts = 1

\* C23: Put never blocks and never changes the allocation counter: a caller
\* holding an instance can always take the Put step; the step appends the
\* instance to the idle queue when it has room and leaves the queue as it is
\* when it is full; no step of the program decreases the allocation counter.
C23_PutNeverBlocksNorCounts ==
  [][/\ \A p \in Procs : (Quiet /\ pc[p] = "acquired") => ENABLED ExtraPut(p)
     /\ currentCount' >= currentCount
     /\ \A p \in Procs : PutBy(p) =>
          /\ currentCount' = currentCount
          /\ constructed' = constructed
          /\ poolCh' = IF Len(poolCh) < maxCount
                         THEN Append(poolCh, last'.inst)
                         ELSE poolCh]_vars

\* C23 witness: a Put has just found the idle queue full and discarded its
\* instance, after Get had raised the allocation counter.
C23_Witness ==
  /\ last.puts = 1
  /\ justPut = NoInstance
  /\ Len(poolCh) = maxCount
  /\ currentCount > minCount

\* C25: when NewRuntimeProviderJS returns, the idle queue holds exactly
\* minCount instances, its capacity is maxCount, and the allocation counter
\* equals the number of instances constructed so far, minCount; with any
\* number of loaded modules, zero included.
C25_ReturnsWarmPool ==
  [][(phase = "warmup" /\ phase' = "running") =>
       /\ Len(poolCh') = minCount
       /\ PoolCap = maxCount
       /\ constructed' = minCount
       /\ currentCount' = constructed']_vars

\* C29: when Get fails inside a dispatcher (the context is done), the
\* dispatcher returns Get's cancellation error to its caller, Rpc and
\* BeforeReq with status Internal; it has not started a script callable, has
\* not called Put, and the idle queue is as it was.
C29_GetFailurePropagates ==
  [][\A p \in Procs :
       (pc[p] \in GetPcs /\ last'.by = p /\ last'.op \in Dispatchers /\ pc'[p] = "idle") =>
         /\ last'.path = "ctx_err"
         /\ RetOf(last'.op, last'.path, GoNil, "none").err = CtxErr
         /\ (last'.op \in {"Rpc", "BeforeReq"} =>
               RetOf(last'.op, last'.path, GoNil, "none").code = "Internal")
         /\ RetOf(last'.op, last'.path, GoNil, "none").val \in {Str(0), GoNil, NoVal}
         /\ last'.inst = NoInstance
         /\ last'.puts = 0
         /\ poolCh' = poolCh
         /\ currentCount' = currentCount]_vars

\* C29 witness: an Rpc call has returned the cancellation error while an idle
\* instance was waiting in the queue.
C29_Witness ==
  /\ last.op = "Rpc"
  /\ last.path = "ctx_err"
  /\ last.puts = 0
  /\ poolCh # <<>>

\* C30: as long as every instance obtained from Get is passed to Put at most
\* once (every caller of Spec does so), the idle queue never holds more than
\* maxCount instances and no Put finds it full: the instance a Put hands in is
\* always enqueued.
C30_NoDiscard ==
  [][/\ Len(poolCh) <= maxCount
     /\ Len(poolCh') <= maxCount
     /\ \A p \in Procs : PutBy(p) =>
          /\ Len(poolCh) < PoolCap
          /\ poolCh' = Append(poolCh, last'.inst)]_vars

\* C30 witness: a Put has just filled the idle queue to maxCount.
C30_Witness ==
  /\ last.puts = 1
  /\ justPut = last.inst
  /\ Len(poolCh) = maxCount
  /\ maxCount > 1

\* evalRuntimeModules has returned.
EvalReturned == boot.pc \in {"returned", "done", "blocked"}

\* C21: whatever the list of cached modules, if one of them does not define
\* the initializer entry point as a function, evalRuntimeModules returns an
\* error, whichever modules were evaluated before it in the shared interpreter.
C21_MissingEntryPointIsError ==
  (EvalReturned /\ \E i \in DOMAIN boot.mods : boot.mods[i].defines # "function")
    => boot.result.err # "none"

\* The evaluation loop is about to fail: the top-level code of the module at
\* idx throws, or the initializer that is about to run fails.
AboutToFail ==
  \/ boot.pc = "run" /\ boot.idx <= Len(boot.mods) /\ boot.mods[boot.idx].top = "throws"
  \/ boot.pc = "init" /\ boot.mods[boot.global.of].init # "ok"

\* C22: evaluation aborts on the first failure.  When a module's top-level
\* code or its initializer fails, evalRuntimeModules returns an error and no
\* registry, and evaluates no later module; NewRuntimeProviderJS then returns
\* that error and no dispatcher tables, and has constructed no pool instance.
C22_AbortOnFirstFailure ==
  /\ [][AboutToFail =>
          /\ boot'.pc = "returned"
          /\ boot'.result.err \notin {"none", "pending"}
          /\ boot'.result.callbacks = "nil"]_vars
  /\ [][(boot.pc = "returned" /\ boot.result.err # "none") =>
          /\ boot'.pc = "done"
          /\ boot'.ret = [tables |-> "nil", err |-> boot.result.err]
          /\ boot'.evald = boot.evald
          /\ boot'.ran = boot.ran
          /\ constructed' = 0
          /\ poolCh' = <<>>]_vars
  /\ []((boot.pc = "done" /\ boot.ret.err # "none") =>
          /\ boot.evald = [i \in 1..boot.idx |-> i]
          /\ boot.idx <= Len(boot.mods)
          /\ constructed = 0)

\* C22 witness: the initializer of the first of two modules failed after it
\* had registered its hooks; NewRuntimeProviderJS has returned the error, the
\* second module was never run, and the pool is empty although minCount > 0.
C22_Witness ==
  /\ boot.pc = "done"
  /\ Len(boot.mods) = 2
  /\ boot.idx = 1
  /\ boot.ran = <<[at |-> 1, of |-> 1]>>
  /\ wired.rpc # <<>>
  /\ boot.ret.tables = "nil"
  /\ boot.ret.err = "error"
  /\ minCount > 0
  /\ constructed = 0

\* The registration made by the step just taken, if it made one.
Registered == Len(wired'.ann) = Len(wired.ann) + 1
Newest == wired'.ann[Len(wired'.ann)]
TableNames == {"rpc", "beforeRt", "afterRt", "beforeReq", "afterReq"}
\* Every dispatcher table but t is as it was, and t is now v.
OnlyTable(t, v) ==
  /\ wired'[t] = v
  /\ \A u \in TableNames \ {t} : wired'[u] = wired[u]
\* id is the API prefix followed by the name of a known operation.
KnownOperation(id) ==
  /\ HasPrefix(id, ApiPrefix)
  /\ Len(id) = Len(ApiPrefix) + 1
  /\ id[Len(id)] \in KnownOps

\* C26: the registration callback wires an announced (mode, id) by mode and
\* prefix.  An RPC id is entered in the RPC table under id; a Before / After id
\* with the realtime prefix in the realtime Before / After table under id; a
\* Before / After id made of the API prefix and a known operation name sets
\* that operation's typed Before / After slot; a Before / After id with the
\* API prefix and an unknown name, or with neither prefix, changes no table.
C26_WiredByModeAndPrefix ==
  [][Registered =>
       LET id == Newest.id
           mode == Newest.mode
           side == IF mode = ModeBefore THEN "before" ELSE "after"
           disp == IF mode = ModeBefore THEN "Before" ELSE "After"
       IN /\ mode = ModeRPC => OnlyTable("rpc", MapSet(wired.rpc, id, Closure("Rpc", id)))
          /\ (mode \in {ModeBefore, ModeAfter} /\ HasPrefix(id, RtPrefix)) =>
               OnlyTable(side \o "Rt", MapSet(wired[side \o "Rt"], id, Closure(disp \o "Rt", id)))
          /\ (mode \in {ModeBefore, ModeAfter} /\ KnownOperation(id)) =>
               OnlyTable(side \o "Req",
                         MapSet(wired[side \o "Req"], id[Len(id)], Closure(disp \o "Req", id)))
          /\ (mode \in {ModeBefore, ModeAfter} /\ ~HasPrefix(id, RtPrefix) /\ ~KnownOperation(id)) =>
               \A u \in TableNames : wired'[u] = wired[u]]_vars

\* C26 witness: after a Before hook for a known operation was wired to its
\* typed slot, an After hook for an unknown operation has been announced and
\* no table has an entry for it.
C26_Witness ==
  /\ Len(wired.ann) = 2
  /\ wired.ann[1].mode = ModeBefore
  /\ wired.ann[1].id = ApiPrefix \o <<"getaccount">>
  /\ wired.ann[2].mode = ModeAfter
  /\ wired.ann[2].id = ApiPrefix \o <<"nosuchop">>
  /\ DOMAIN wired.beforeReq = {"getaccount"}
  /\ wired.afterReq = <<>>
  /\ wired.afterRt = <<>>

\* C27: registration is idempotent per (mode, id).  Announcing a (mode, id)
\* that was announced before leaves every dispatcher table with the same keys
\* and every typed slot assigned as it was, and the table entry of that key
\* dispatches to the callable registered last.
C27_RegistrationIdempotent ==
  [][(Registered /\ \E i \in DOMAIN wired.ann :
                      wired.ann[i].mode = Newest.mode /\ wired.ann[i].id = Newest.id) =>
       /\ \A t \in TableNames : DOMAIN wired'[t] = DOMAIN wired[t]
       /\ \A t \in TableNames : \A k \in DOMAIN wired'[t] : wired'[t][k].id = wired[t][k].id
       /\ \A t \in TableNames : \A k \in DOMAIN wired'[t] :
            (wired'[t][k].id = Newest.id /\ ModeOf(wired'[t][k].disp) = Newest.mode) =>
              Resolve(wired'[t][k], callbacks') = Newest.fn]_vars

\* C27 witness: the Before hook of a known operation was registered twice with
\* different callables; its typed slot is set and reaches the second one.
C27_Witness ==
  /\ Len(wired.ann) = 2
  /\ wired.ann[1].mode = ModeBefore
  /\ wired.ann[2].mode = ModeBefore
  /\ wired.ann[1].id = ApiPrefix \o <<"event">>
  /\ wired.ann[2].id = ApiPrefix \o <<"event">>
  /\ wired.ann[1].fn # wired.ann[2].fn
  /\ "event" \in DOMAIN wired.beforeReq
  /\ Resolve(wired.beforeReq["event"], callbacks) = wired.ann[2].fn

\* C24: InvokeFunction sorts what the script call came back with into exactly
\* one of four results.  An uncaught script exception gives (nil, an error of
\* kind exception carrying the stack trace, Internal); any other error of the
\* invocation gives (nil, an error of the runtime kind carrying the message,
\* Internal); a nil, undefined or null return gives (nil, nil, OK); any other
\* returned value v gives (v, nil, OK).
C24_FourResults ==
  call.pc = "returned" =>
    LET v == call.out
        ret == call.ret
    IN CASE v.kind = "exception" ->
              /\ ret.result = GoNil
              /\ ret.err # NilError
              /\ ret.err.Type = TypeString("JsErrorException")
              /\ ret.err.Type = "exception"
              /\ ret.err.StackTrace = v.trace
              /\ ret.err.error = v.text
              /\ ret.code = "Internal"
         [] v.kind = "error" ->
              /\ ret.result = GoNil
              /\ ret.err # NilError
              /\ ret.err.Type = TypeString("JsErrorRuntime")
              /\ ret.err.Type # "exception"
              /\ ret.err.Message = v.text
              /\ ret.err.error = v.text
              /\ ret.code = "Internal"
         [] v.kind \in {"nil", "undefined", "null"} ->
              ret = [result |-> GoNil, err |-> NilError, code |-> "OK"]
         [] OTHER ->
              ret = [result |-> v, err |-> NilError, code |-> "OK"]

\* C24 witness: the script threw; InvokeFunction has returned the exception
\* error with the stack trace, which differs from the exception's own text.
C24_Witness ==
  /\ call.pc = "returned"
  /\ call.out.kind = "exception"
  /\ call.out.text = "e1"
  /\ call.ret.err.StackTrace = "e1 at f"
  /\ call.ret.code = "Internal"

\* C28: the context built for a call always carries node, env and
\* execution_mode, and carries query_params, user_session_exp, user_id,
\* username, vars, session_id, client_ip, client_port exactly when the
\* argument is non-nil (maps), non-zero (expiry), non-empty (strings), each
\* with the argument's value; it is a new object, not one that existed before
\* the call.
C28_SparseFreshContext ==
  call.pc \in {"calling", "returned"} =>
    LET a == call.args
        c == call.ctx.props
        Has(k) == k \in DOMAIN c
    IN /\ call.ctx # NoObject
       /\ call.ctx.id # call.prev.id
       /\ DOMAIN c \subseteq CtxAlways \cup CtxOptional
       /\ Has("node") /\ c["node"] = Node
       /\ Has("env") /\ c["env"] = Env
       /\ Has("execution_mode") /\ c["execution_mode"] = a.mode
       /\ Has("query_params") <=> a.queryParams # GoNil
       /\ Has("user_session_exp") <=> a.sessionExpiry # 0
       /\ Has("user_id") <=> a.userID # ""
       /\ Has("username") <=> a.username # ""
       /\ Has("vars") <=> a.vars # GoNil
       /\ Has("session_id") <=> a.sessionID # ""
       /\ Has("client_ip") <=> a.clientIP # ""
       /\ Has("client_port") <=> a.clientPort # ""
       /\ Has("query_params") => c["query_params"] = a.queryParams
       /\ Has("user_session_exp") => c["user_session_exp"] = a.sessionExpiry
       /\ Has("user_id") => c["user_id"] = a.userID
       /\ Has("username") => c["username"] = a.username
       /\ Has("vars") => c["vars"] = a.vars
       /\ Has("session_id") => c["session_id"] = a.sessionID
       /\ Has("client_ip") => c["client_ip"] = a.clientIP
       /\ Has("client_port") => c["client_port"] = a.clientPort

\* C28 witness: on an interpreter whose earlier context had every property,
\* a call with an empty, non-nil query map, a negative expiry and no user has
\* built a context with query_params and user_session_exp and without user_id.
C28_Witness ==
  /\ call.pc = "calling"
  /\ call.prev = EarlierCtx
  /\ call.args.queryParams = GoMap(0)
  /\ call.args.sessionExpiry = -1
  /\ call.args.userID = ""
  /\ DOMAIN call.ctx.props = CtxAlways \cup {"query_params", "user_session_exp"}

\* ------------------------------------------- claims on the allocation counter
\* Instances built by Get (not by the warm-up) once the provider is running,
\* and the number of counter values <= maxCount that Inc has handed out.
BuiltByGet == constructed - warmed
ValuesWithinMax ==
  IF currentCount <= maxCount THEN currentCount - minCount
  ELSE IF minCount <= maxCount THEN maxCount - minCount ELSE 0

\* C31: Get reaches its default branch only from the non-blocking select with
\* an empty idle queue and a live context; an instance is built in Get only by
\* the caller whose own Inc returned a value <= maxCount, one instance per such
\* value: each Inc returns the next counter value, the values held by waiting
\* losers are pairwise distinct and above maxCount, and the number of instances
\* built by Get equals the number of values <= maxCount handed out.
C31_OneBuildPerCounterValue ==
  [][/\ \A p \in Procs :
          /\ (pc'[p] = "get_load" /\ pc[p] # "get_load") =>
               (pc[p] = "get_select" /\ ctx[p] = "live" /\ poolCh = <<>>)
          /\ (pc'[p] = "get_inc" /\ pc[p] # "get_inc") => pc[p] = "get_load"
          /\ (pc[p] = "get_inc" /\ pc'[p] # "get_inc") =>
               /\ currentCount' = currentCount + 1
               /\ IF currentCount' <= maxCount
                    THEN /\ constructed' = constructed + 1
                         /\ r'[p] = constructed'
                         /\ pc'[p] = "acquired"
                    ELSE /\ constructed' = constructed
                         /\ cc'[p] = currentCount'
                         /\ pc'[p] = "get_wait"
     /\ (phase = "running" /\ constructed' # constructed) =>
          \E p \in Procs :
            /\ pc[p] = "get_inc"
            /\ pc'[p] = "acquired"
            /\ currentCount' <= maxCount
            /\ \A q \in Procs \ {p} : pc'[q] = pc[q] /\ r'[q] = r[q]
     /\ currentCount' # currentCount =>
          \E p \in Procs : pc[p] = "get_inc" /\ pc'[p] # "get_inc"
     /\ \A p, q \in Procs :
          (p # q /\ cc'[p] # 0) => (cc'[p] # cc'[q] /\ cc'[p] > maxCount)
     /\ phase' = "running" => BuiltByGet' = ValuesWithinMax']_vars

\* C31 witness: two Gets raced for the last slot; one built the instance for
\* the counter value maxCount, the other got maxCount + 1 and waits.
C31_Witness ==
  \E p, q \in Procs :
    /\ p # q
    /\ pc[p] = "acquired"
    /\ r[p] = constructed
    /\ r[p] > warmed
    /\ pc[q] = "get_wait"
    /\ cc[q] = maxCount + 1
    /\ currentCount = maxCount + 1

\* C32: a Get that finds the counter at or above maxCount, or whose Inc
\* returned a value above maxCount, builds nothing and goes to the blocking
\* wait; a waiting Get leaves only with the cancellation error or with the
\* oldest idle instance, building nothing; and the idle queue grows only by a
\* pre-warmed instance during startup or by the instance a caller holds and
\* passes to Put.
C32_LoserWaitsForIdle ==
  [][/\ \A p \in Procs :
          /\ (pc[p] = "get_load" /\ currentCount >= maxCount /\ pc'[p] # pc[p]) =>
               /\ pc'[p] = "get_wait"
               /\ r'[p] = NoInstance
               /\ constructed' = constructed
               /\ currentCount' = currentCount
          /\ (pc[p] = "get_inc" /\ currentCount >= maxCount /\ pc'[p] # pc[p]) =>
               /\ pc'[p] = "get_wait"
               /\ r'[p] = NoInstance
               /\ constructed' = constructed
          /\ (pc[p] = "get_wait" /\ pc'[p] # pc[p]) =>
               /\ constructed' = constructed
               /\ currentCount' = currentCount
               /\ IF r'[p] # NoInstance
                    THEN /\ pc'[p] = "acquired"
                         /\ poolCh # <<>>
                         /\ r'[p] = poolCh[1]
                         /\ poolCh' = Tail(poolCh)
                    ELSE /\ last'.by = p
                         /\ last'.path = "ctx_err"
                         /\ poolCh' = poolCh
     /\ Len(poolCh') > Len(poolCh) =>
          \E x \in 1..constructed' :
            /\ poolCh' = Append(poolCh, x)
            /\ IF phase = "warmup"
                 THEN x = constructed' /\ constructed' = constructed + 1
                 ELSE \E q \in Procs : r[q] = x /\ pc[q] \in {"acquired", "invoking"}]_vars

\* C32 witness: a Get that lost the increment race is waiting, and an instance
\* that another Get built and its caller has since Put back is idle, next to
\* be received.
C32_Witness ==
  \E p \in Procs :
    /\ pc[p] = "get_wait"
    /\ ctx[p] = "live"
    /\ cc[p] > maxCount
    /\ poolCh # <<>>
    /\ poolCh[1] > warmed
    /\ justPut = poolCh[1]

\* C33: the allocation counter never decreases, is never below the number of
\* instances constructed, never exceeds maxCount + P - 1 for P callers, and a
\* Get that finds it at or above maxCount does not increment it.
C33_CounterOvershootBounded ==
  [][/\ currentCount' >= currentCount
     /\ currentCount >= constructed
     /\ currentCount' >= constructed'
     /\ currentCount <= maxCount + NumProcs - 1
     /\ currentCount' <= maxCount + NumProcs - 1
     /\ \A p \in Procs :
          (pc[p] = "get_load" /\ currentCount >= maxCount /\ pc'[p] # pc[p]) =>
            (pc'[p] = "get_wait" /\ currentCount' = currentCount)]_vars

\* C34: evalRuntimeModules takes the modules in the order of modCache.Names;
\* it runs the top-level program of each exactly once, then calls that
\* module's own initializer exactly once, and only then moves on; when it
\* returns without error every module has been run and initialised.
C34_EachModuleOnceInOrder ==
  /\ boot.evald = [i \in 1..Len(boot.evald) |-> i]
  /\ \A k \in DOMAIN boot.ran : boot.ran[k] = [at |-> k, of |-> k]
  /\ Len(boot.ran) <= Len(boot.evald)
  /\ Len(boot.evald) <= Len(boot.ran) + 1
  /\ boot.result.err = "none" =>
       (Len(boot.evald) = Len(boot.mods) /\ Len(boot.ran) = Len(boot.mods))

\* C35: after every Add the name list of the module cache has no duplicates
\* and names exactly the keys of the name-to-module mapping, and every module
\* that was compiled and added is the one the mapping holds under its name.
C35_NamesAreTheKeys ==
  /\ \A i, j \in DOMAIN moduleCache.Names :
       i # j => moduleCache.Names[i] # moduleCache.Names[j]
  /\ Range(moduleCache.Names) = DOMAIN moduleCache.Modules
  /\ \A k \in DOMAIN added :
       /\ added[k].Name \in DOMAIN moduleCache.Modules
       /\ moduleCache.Modules[added[k].Name] = added[k]

\* ---------------------------------------------- further claims on HookSpec
\* The return paths of a dispatcher after a failed conversion of an argument,
\* a failed script call, or a failed projection of the result.
FailurePaths ==
  {"fn_err", "post_marshal", "post_unmarshal"}
    \cup {"res_" \o x : x \in {"cast", "marshal", "unmarshal"}}
    \cup {"req_" \o x : x \in {"cast", "marshal", "unmarshal"}}

\* C36: a dispatcher call invokes the script callable at most once, and only
\* at its one InvokeFunction call; it keeps the instance it acquired, takes
\* nothing from the idle queue and builds nothing; and when a conversion, the
\* script or the projection fails it returns an error, the hook having run
\* once if it was reached and not at all otherwise.
C36_HookInvokedAtMostOnce ==
  [][/\ hook.calls <= 1
     /\ hook'.calls <= 1
     /\ hook'.calls # hook.calls =>
          (hook.pc = "invoke" /\ hook'.pc = "project" /\ hook'.calls = hook.calls + 1)
     /\ hook'.r = hook.r
     /\ poolCh' # poolCh => poolCh' = Append(poolCh, hook.r)
     /\ constructed' = constructed
     /\ currentCount' = currentCount
     /\ (hook'.pc = "done" /\ hook'.path \in FailurePaths) =>
          /\ hook'.ret.err # "none"
          /\ hook'.calls = hook.calls
          /\ hook'.calls = IF hook.pc = "project" THEN 1 ELSE 0]_vars

\* C36 witness: a BeforeReq hook threw, and BeforeReq has returned the error
\* after the one call.
C36_Witness ==
  /\ hook.op = "BeforeReq"
  /\ hook.pc = "done"
  /\ hook.path = "fn_err"
  /\ hook.calls = 1
  /\ hook.ret.err = "JsErrorException"

\* The script value a message argument must arrive as: null when the caller
\* passed none, else an object whose properties are fields of the message
\* with the message's values.
ArrivesAs(v, arg) ==
  IF arg = GoNil THEN v = JsNull
  ELSE /\ v.kind = "obj"
       /\ DOMAIN v.val \subseteq Fields
       /\ \A f \in DOMAIN v.val : v.val[f] = arg.f[f]
       /\ \A f \in Fields \ DOMAIN v.val : arg.f[f] = 0

\* C37: when the hook is called, its arguments are the context, the logger
\* and the host API followed by the payloads: for AfterReq exactly two, the
\* response and then the request, each null when absent; for BeforeReq,
\* BeforeRt and AfterRt exactly one, the request or envelope; for Rpc exactly
\* one, the payload string.
C37_PayloadArguments ==
  hook.calls = 1 =>
    LET jv == Jv(hook.payloads) IN
    /\ SubSeq(jv, 1, 3) = FixedArgs
    /\ CASE hook.op = "AfterReq" ->
              /\ Len(jv) = 5
              /\ ArrivesAs(jv[4], entry.res)
              /\ ArrivesAs(jv[5], entry.req)
         [] hook.op = "Rpc" ->
              /\ Len(jv) = 4
              /\ jv[4].kind = "str"
         [] OTHER ->
              /\ Len(jv) = 4
              /\ ArrivesAs(jv[4], entry.req)

\* C37 witness: an AfterReq hook was called with a response but no request,
\* and received an object and then null.
C37_Witness ==
  /\ hook.op = "AfterReq"
  /\ hook.calls = 1
  /\ entry.res.kind = "msg"
  /\ entry.req = GoNil
  /\ hook.payloads[1].kind = "obj"
  /\ hook.payloads[2] = JsNull

\* ---------------------------------------------------- claims on FairSpec
\* C38: for every configured pair (minCount, maxCount) the warm-up ends and
\* NewRuntimeProviderJS returns: startup eventually reaches the running pool.
C38_WarmUpTerminates == <>(phase = "running")

\* ---------------------------------------------------- claims on CheckSpec
\* C39: CheckRuntimeProviderJavascript never crashes; it returns an error when
\* a module cannot be read or compiled or evaluated, and nil when every module
\* is well-formed.
C39_CheckNeverCrashes ==
  /\ boot.pc # "crashed"
  /\ boot.pc = "done" =>
       (boot.ret.err = "none" <=> cacheResult.err = "none")

====
